---- MODULE Spec2Model ----
(***************************************************************************)
(* Control core of the Mini5 five-band SSB transceiver (src/Mini5.c,       *)
(* ATmega328, avr-gcc: int is 16 bits, long is 32 bits).                   *)
(*                                                                         *)
(* The model follows main(): the startup load from the EEPROM, the main    *)
(* loop with its key handlers, the menu, the two scan routines, the        *)
(* adjust routines and the two interrupt handlers.  The oscillators are    *)
(* represented by the frequency they were last programmed with.            *)
(***************************************************************************)
EXTENDS Integers, Sequences, FiniteSets, TLC

(***************************************************************************)
(* Program constants                                                       *)
(***************************************************************************)
OFF_LAST_BAND_USED == 0
OFF_LAST_VFO_USED == 5
OFF_LAST_SIDEBAND_USED == 6
OFF_VFO_DATA == 7
OFF_FREQ_DATA == 64
OFF_TX_PRESET == 128
OFF_THRESH == 138
MAXBANDS == 5

Bands == 0 .. (MAXBANDS - 1)
Vfos == 0 .. 1

std_sideband == [b \in Bands |-> IF b < 2 THEN 0 ELSE 1]
c_freq == [b \in Bands |-> CASE b = 0 -> 3650000 [] b = 1 -> 7120000
                             [] b = 2 -> 14180000 [] b = 3 -> 18100000
                             [] OTHER -> 21290000]
band_f0 == [b \in Bands |-> CASE b = 0 -> 3490000 [] b = 1 -> 6990000
                              [] b = 2 -> 13990000 [] b = 3 -> 18060000
                              [] OTHER -> 20990000]
band_f1 == [b \in Bands |-> CASE b = 0 -> 3810000 [] b = 1 -> 7210000
                              [] b = 2 -> 14360000 [] b = 3 -> 18170000
                              [] OTHER -> 21460000]

\* Initial values of the globals f_vfo, f_lo, tx_preset
f_vfo_init == [b \in Bands |-> CASE b = 0 -> [v \in Vfos |-> 3650000]
                                [] b = 1 -> [v \in Vfos |-> 7120000]
                                [] b = 2 -> [v \in Vfos |-> IF v = 0 THEN 14200000 ELSE 14280000]
                                [] b = 3 -> [v \in Vfos |-> IF v = 0 THEN 18080000 ELSE 18150000]
                                [] OTHER -> [v \in Vfos |-> IF v = 0 THEN 21290000 ELSE 21390000]]
f_lo_init == [s \in 0 .. 2 |-> CASE s = 0 -> 8998660 [] s = 1 -> 9001800 [] OTHER -> 9000000]
tx_preset_init == [b \in 0 .. 5 |-> 0]

(***************************************************************************)
(* The EEPROM: the bytes of the persistent record                          *)
(***************************************************************************)
EeAddrs == {OFF_LAST_BAND_USED, OFF_LAST_VFO_USED, OFF_LAST_SIDEBAND_USED}
             \cup (OFF_VFO_DATA .. (OFF_VFO_DATA + MAXBANDS - 1))
             \cup (OFF_FREQ_DATA .. (OFF_FREQ_DATA + 8 * MAXBANDS - 1))
             \cup (OFF_TX_PRESET .. OFF_THRESH)

\* Conversion of a C value to unsigned char
U8(x) == x % 256

\* Conversion of a C value to a 16-bit int (two's complement)
I16(x) == ((x + 32768) % 65536) - 32768

\* A long has 32 bits
MaxLong == 2147483647
MinLong == -MaxLong - 1

\* a + n in a long for n >= 0. Past MaxLong the C behaviour is undefined; the
\* AVR's add/adc sequence wraps around.
long_add(a, n) == IF a > MaxLong - n THEN MinLong + (n - 1 - (MaxLong - a)) ELSE a + n

VARIABLES
  pc,            \* position of the main context
  eeprom,        \* EEPROM content, address -> byte
  cur_band, cur_vfo, sideband, f_vfo, f_lo, thresh, tx_preset, split,
  relay,         \* PORTD bits 0..2, the band relay code
  dds,           \* frequency last given to set_frequency_ad9850
  lo,            \* frequency last given to si5351_set_freq(SYNTH_MS_0, .)
  clk12,         \* frequencies given to si5351_set_freq for SYNTH_MS_1 and
                 \* SYNTH_MS_2 since power on, in call order
  dac,           \* value last given to mcp4725_set_value
  txrx,          \* main(): TX/RX indicator
  runseconds10s, \* tick count at the last TX/RX check of the main loop
  laststate, tuningknob, tuningcount, runseconds10,
  menu, mpos,    \* menux()/navigate_thru_item_list(): menu number, position
  m,             \* main(): the value menux() returned
  key,           \* the key last read by the running routine
  fx, f,         \* scan_f0_f1(): probe frequency, sorted sweep bounds
  t1,            \* scan_vfoa_vfob(): VFO being listened to
  sval, wait, runsecs10thresh,
  sb,            \* set_lo_frequencies(): sideband being calibrated
  v1,            \* tx_preset_adjust(): value being adjusted
  tick_limit, key_limit, enc_limit,
                 \* timer ticks, key gestures at the main loop and encoder
                 \* steps the specification follows
  nkeys, nenc,   \* key gestures and encoder steps so far
  rd_pc,         \* the main context's load of tuningknob, one byte at a time:
                 \* "off" where it is not followed, "idle", "lo" or "hi" with
                 \* that byte loaded, "done"
  rd_byte,       \* the byte loaded first
  rd_val,        \* the value the finished load delivers
  held,          \* values tuningknob has held while the load is followed
  committed      \* arguments of the last store_current_operation, <<>> once
                 \* another EEPROM write followed it

(***************************************************************************)
(* Floating point.  The compiler is avr-gcc for the ATmega328: a double    *)
(* has the 32 bits of a float, one sign bit, 8 exponent bits and a 24 bit   *)
(* significand.  A value that is not negative is the pair <<sig, exp>> for  *)
(* sig * 2^exp, with MANT \div 2 <= sig < MANT, or <<0, 0>> for zero.       *)
(***************************************************************************)
MANT == 16777216

\* Number of bits of n, 0 <= n <= MaxLong
bitlen(n) ==
  IF n >= 1073741824 THEN 31
  ELSE CHOOSE k \in 0 .. 30 : n < 2^k /\ (k = 0 \/ n >= 2^(k - 1))

\* n / 2^s rounded to the nearest integer, a tie to the even one
round_shift(n, s) ==
  LET q == n \div 2^s
      r == n % 2^s
      half == 2^(s - 1)
  IN  IF r > half \/ (r = half /\ q % 2 = 1) THEN q + 1 ELSE q

\* The float for sig * 2^exp where sig has 24 bits or fewer, or 25 after a
\* rounding carried
f32_pack(sig, exp) ==
  IF sig = 0 THEN <<0, 0>>
  ELSE IF sig >= MANT THEN <<sig \div 2, exp + 1>>
  ELSE <<sig * 2^(24 - bitlen(sig)), exp - (24 - bitlen(sig))>>

\* Conversion of n * 2^exp to float, 0 <= n <= MaxLong
f32_norm(n, exp) ==
  IF bitlen(n) <= 24 THEN f32_pack(n, exp)
  ELSE f32_pack(round_shift(n, bitlen(n) - 24), exp + (bitlen(n) - 24))

\* (double) n of a long or unsigned long n, 0 <= n <= MaxLong
f32_of_long(n) == f32_norm(n, 0)

\* (long) x: the fraction is cut off; x < 2^31
f32_to_long(x) ==
  IF x[2] >= 0 THEN x[1] * 2^(x[2])
  ELSE IF x[2] < -24 THEN 0
  ELSE x[1] \div 2^(-x[2])

\* k more bits of the quotient of a division by d: <<quotient, remainder>>
RECURSIVE long_div(_, _, _, _)
long_div(q, r, d, k) ==
  IF k = 0 THEN <<q, r>>
  ELSE IF 2 * r >= d THEN long_div(2 * q + 1, 2 * r - d, d, k - 1)
  ELSE long_div(2 * q, 2 * r, d, k - 1)

\* x / y, y # 0, rounded to the nearest float
f32_div(x, y) ==
  IF x[1] = 0 THEN <<0, 0>>
  ELSE LET k == IF x[1] >= y[1] THEN 23 ELSE 24
           qr == long_div(x[1] \div y[1], x[1] % y[1], y[1], k)
           up == 2 * qr[2] > y[1] \/ (2 * qr[2] = y[1] /\ qr[1] % 2 = 1)
       IN  f32_pack(IF up THEN qr[1] + 1 ELSE qr[1], x[2] - y[2] - k)

\* x * y rounded to the nearest float; the 48 bit product of the
\* significands is built from 12 bit halves
f32_mul(x, y) ==
  IF x[1] = 0 \/ y[1] = 0 THEN <<0, 0>>
  ELSE LET a1 == x[1] \div 4096
           a0 == x[1] % 4096
           b1 == y[1] \div 4096
           b0 == y[1] % 4096
           mid == a1 * b0 + a0 * b1
           t == (mid % 4096) * 4096 + a0 * b0
           lo24 == t % MANT
           hi24 == a1 * b1 + mid \div 4096 + t \div MANT
           big == hi24 >= MANT \div 2
           sig == IF big THEN hi24 ELSE 2 * hi24 + lo24 \div (MANT \div 2)
           rest == IF big THEN lo24 ELSE 2 * (lo24 % (MANT \div 2))
           up == rest > MANT \div 2 \/ (rest = MANT \div 2 /\ sig % 2 = 1)
       IN  f32_pack(IF up THEN sig + 1 ELSE sig,
                    x[2] + y[2] + (IF big THEN 24 ELSE 23))

\* x - y for x >= y >= 0 of exponents at most 7 apart
f32_sub(x, y) ==
  IF y[1] = 0 THEN x
  ELSE f32_norm(x[1] * 2^(x[2] - y[2]) - y[1], y[2])

\* x * 2^k
f32_scale(x, k) == IF x[1] = 0 THEN x ELSE <<x[1], x[2] + k>>

(***************************************************************************)
(* Si5351A: si5351_set_freq(synth, freq)                                   *)
(***************************************************************************)
PLLRATIO == 36
CFACTOR == 1048575
f_xtal == 25000000

\* fdiv = (double) (f_xtal * PLLRATIO) / freq, freq > 0
si5351_fdiv(freq) == f32_div(f32_of_long(f_xtal * PLLRATIO), f32_of_long(freq))

\* a = (unsigned long) fdiv
si5351_a(freq) == f32_to_long(si5351_fdiv(freq))

\* rm = fdiv - a; b = rm * c
si5351_b(freq) ==
  f32_to_long(f32_mul(f32_sub(si5351_fdiv(freq), f32_of_long(si5351_a(freq))),
                      f32_of_long(CFACTOR)))

\* The register words; 128 * a + 128 * b / c >= 512 for a >= 4
si5351_p1(a, b) == 128 * a + (128 * b) \div CFACTOR - 512
si5351_p2(a, b) == 128 * b - CFACTOR * ((128 * b) \div CFACTOR)

\* The bytes written to registers synth + 2 .. synth + 7
si5351_regs(p1, p2) ==
  <<(p1 \div 65536) % 4, (p1 \div 256) % 256, p1 % 256,
    240 + ((p2 \div 65536) % 16), (p2 \div 256) % 256, p2 % 256>>

\* si5351_start(): the words for the VCOs
si5351_start_p1 == 128 * PLLRATIO + (128 * 0) \div CFACTOR - 512
si5351_start_p2 == 128 * 0 - CFACTOR * ((128 * 0) \div CFACTOR)

(***************************************************************************)
(* AD9850: set_frequency_ad9850(fx)                                        *)
(***************************************************************************)
clk == 125000000

\* fword0 = (double) fx / clk * 65536; fword1 = (long) (fword0 * 65536)
ad9850_fword1(fq) ==
  f32_to_long(f32_scale(f32_scale(f32_div(f32_of_long(fq), f32_of_long(clk)), 16), 16))

\* hiword = fword1 >> 16; loword = fword1 - (hiword << 16)
ad9850_hiword(w) == w \div 65536
ad9850_loword(w) == w - ad9850_hiword(w) * 65536

\* The 32 bits W0 .. W31 clocked out, as a number: bit t of loword is Wt and
\* bit t of hiword is W(16 + t), t < 16
ad9850_word(w) == (ad9850_loword(w) % 65536) + 65536 * (ad9850_hiword(w) % 65536)

\* Bits of PORTB the AD9850 is wired to
DDS_FQ_UD == 2
DDS_SDATA == 3
DDS_W_CLK == 4

\* Variant: a zero bit is put on the data line without a clock pulse
spi_send_bit_unclocked(sbit) ==
  IF sbit # 0 THEN <<<<DDS_SDATA, 1>>, <<DDS_W_CLK, 1>>, <<DDS_W_CLK, 0>>>>
  ELSE <<<<DDS_SDATA, 0>>>>

\* spi_send_bit(sbit) as the writes to PORTB it makes, each <<bit, level>>
spi_send_bit(sbit) ==
  <<<<DDS_SDATA, IF sbit # 0 THEN 1 ELSE 0>>, <<DDS_W_CLK, 1>>, <<DDS_W_CLK, 0>>>>

\* w & x of a long w, for x a power of two
long_and(w, x) == ((w \div x) % 2) * x

\* for(t1 = 0; t1 < 16; t1++) { spi_send_bit(w & x); x <<= 1; } from t1 = t
\* on; the long w & x is converted to the int parameter
RECURSIVE send_word(_, _, _)
send_word(w, x, t) ==
  IF t < 16 THEN spi_send_bit(I16(long_and(w, x))) \o send_word(w, x * 2, t + 1)
  ELSE <<>>

\* for(t1 = 0; t1 < 8; t1++) spi_send_bit(0); from t1 = t on
RECURSIVE send_zeros(_)
send_zeros(t) == IF t < 8 THEN spi_send_bit(0) \o send_zeros(t + 1) ELSE <<>>

\* set_frequency_ad9850(fq) as the writes to PORTB it makes
set_frequency_ad9850(fq) ==
  <<<<DDS_FQ_UD, 0>>>>
    \o send_word(ad9850_loword(ad9850_fword1(fq)), 1, 0)
    \o send_word(ad9850_hiword(ad9850_fword1(fq)), 1, 0)
    \o send_zeros(0)
    \o <<<<DDS_FQ_UD, 1>>>>

radio == <<cur_band, cur_vfo, sideband, f_vfo, f_lo, thresh, tx_preset, split, relay>>
hw == <<dds, lo, clk12, dac>>
knob == <<laststate, tuningknob, tuningcount>>
locals == <<menu, mpos, m, key, fx, f, t1, sval, wait, runsecs10thresh, sb, v1>>
rd == <<rd_pc, rd_byte, rd_val>>
limits == <<tick_limit, key_limit, enc_limit, rd, held>>
bounds == <<limits, nkeys, nenc>>

vars == <<pc, eeprom, radio, hw, txrx, runseconds10s, knob, runseconds10,
          locals, bounds, committed>>

(***************************************************************************)
(* EEPROM functions                                                         *)
(***************************************************************************)
\* rf = 16777216 * hmsb + 65536 * hlsb + 256 * lmsb + llsb in a 32-bit long:
\* a top byte of 128 or more wraps to a negative value.
load_frequency(ee, vfo, band) ==
  LET start_adr == vfo * 4 + band * 8 + OFF_FREQ_DATA
      hmsb == ee[start_adr]
      hlsb == ee[start_adr + 1]
      lmsb == ee[start_adr + 2]
      llsb == ee[start_adr + 3]
  IN (IF hmsb >= 128 THEN hmsb - 256 ELSE hmsb) * 16777216
       + 65536 * hlsb + 256 * lmsb + llsb

\* Variant: the slots of a band's two VFOs and of the next band overlap
store_frequency_stride4(ee, vfo, band, fq) ==
  LET start_adr == vfo * 2 + band * 4 + OFF_FREQ_DATA
  IN [ee EXCEPT ![start_adr] = U8(fq \div 16777216),
                ![start_adr + 1] = U8(fq \div 65536),
                ![start_adr + 2] = U8(fq \div 256),
                ![start_adr + 3] = U8(fq)]

store_frequency(ee, vfo, band, fq) ==
  LET start_adr == vfo * 4 + band * 8 + OFF_FREQ_DATA
      hiword == fq \div 65536
      loword == fq - hiword * 65536
      hmsb == U8(hiword \div 256)
      hlsb == U8(hiword - hmsb * 256)
      lmsb == U8(loword \div 256)
      llsb == U8(loword - lmsb * 256)
  IN [ee EXCEPT ![start_adr] = hmsb, ![start_adr + 1] = hlsb,
                ![start_adr + 2] = lmsb, ![start_adr + 3] = llsb]

load_vfo(ee, xband) ==
  LET r == ee[xband + OFF_VFO_DATA]
  IN IF r = 0 \/ r = 1 THEN r ELSE -1

\* Variant: the VFO byte goes to the last-VFO address instead of the band's
store_vfo_last(ee, xband, xvfo) == [ee EXCEPT ![OFF_LAST_VFO_USED] = U8(xvfo)]

store_vfo(ee, xband, xvfo) == [ee EXCEPT ![xband + OFF_VFO_DATA] = U8(xvfo)]

load_band(ee) ==
  LET r == ee[OFF_LAST_BAND_USED]
  IN IF r >= 0 /\ r <= 4 THEN r ELSE -1

store_current_operation(ee, cband, cvfo, sband, frequency) ==
  LET e1 == [ee EXCEPT ![OFF_LAST_BAND_USED] = U8(cband)]
      e2 == store_vfo(e1, cband, cvfo)
      e3 == [e2 EXCEPT ![OFF_LAST_SIDEBAND_USED] = U8(sband)]
  IN store_frequency(e3, cvfo, cband, frequency)

store_tx_preset(ee, value, band) ==
  LET adr == OFF_TX_PRESET + band * 2
  IN [ee EXCEPT ![adr] = (value \div 256) % 16, ![adr + 1] = value % 256]

\* Variant: the stored word is returned without the range test
load_tx_preset_unchecked(ee, band) ==
  LET adr == OFF_TX_PRESET + band * 2
  IN I16(ee[adr] * 256 + ee[adr + 1])

\* v = (byte << 8) + byte in a 16-bit int
load_tx_preset(ee, band) ==
  LET adr == OFF_TX_PRESET + band * 2
      v == I16(ee[adr] * 256 + ee[adr + 1])
  IN IF v >= 0 /\ v <= 4095 THEN v ELSE 2048

\* Variant: the band edges themselves are rejected
is_mem_freq_ok_open(fq, cband) == fq > band_f0[cband] /\ fq < band_f1[cband]

is_mem_freq_ok(fq, cband) == fq >= band_f0[cband] /\ fq <= band_f1[cband]

\* Variant: the stored frequency is taken without the band-edge test
reload_frequency_unchecked(ee, vfo, band) == load_frequency(ee, vfo, band)

\* Frequency of a (band, VFO) slot as reloaded from the EEPROM
reload_frequency(ee, vfo, band) ==
  IF is_mem_freq_ok(load_frequency(ee, vfo, band), band)
    THEN load_frequency(ee, vfo, band)
    ELSE c_freq[band]

(***************************************************************************)
(* Startup: main() up to sei()                                             *)
(***************************************************************************)
\* Variant: an invalid band byte selects band 0
startup_band_first(ee) == IF load_band(ee) = -1 THEN 0 ELSE load_band(ee)

startup_band(ee) == IF load_band(ee) = -1 THEN 2 ELSE load_band(ee)

startup_vfo(ee) ==
  IF load_vfo(ee, startup_band(ee)) = -1 THEN 0 ELSE load_vfo(ee, startup_band(ee))

startup_sideband(ee) == std_sideband[startup_band(ee)]

startup_thresh(ee) ==
  IF ee[OFF_THRESH] < 0 \/ ee[OFF_THRESH] > 12 THEN 8 ELSE ee[OFF_THRESH]

startup_tx_preset(ee) ==
  [b \in 0 .. 5 |->
     IF b < 5
       THEN IF load_tx_preset(ee, b) < 0 \/ load_tx_preset(ee, b) > 4096
              THEN 2048 ELSE load_tx_preset(ee, b)
       ELSE tx_preset_init[b]]

\* Values of the routines' local variables while the routine is not running
LocalsIdle ==
  /\ menu = 0 /\ mpos = 0 /\ m = 0 /\ key = 0 /\ fx = 0 /\ f = <<0, 0>>
  /\ t1 = 0 /\ sval = 0 /\ wait = 0 /\ runsecs10thresh = 0 /\ sb = 0 /\ v1 = 0

\* Power-on state of the RAM and of the peripherals
PowerOn ==
  /\ pc = "boot"
  /\ cur_band = 0 /\ cur_vfo = 0 /\ sideband = 1
  /\ f_vfo = f_vfo_init /\ f_lo = f_lo_init
  /\ thresh = 5 /\ tx_preset = tx_preset_init /\ split = 0
  /\ relay = 0 /\ dds = 0 /\ lo = 0 /\ clk12 = <<>> /\ dac = 0
  /\ txrx = 0 /\ runseconds10s = 0
  /\ laststate = 0 /\ tuningknob = 0 /\ tuningcount = 0 /\ runseconds10 = 0
  /\ LocalsIdle

\* set_band(bcode), bcode >= 0: relay code and LO of the band's standard sideband
set_band_relay(bcode) == bcode
set_band_lo(bcode) == f_lo[std_sideband[bcode]]

Startup ==
  /\ pc = "boot"
  /\ cur_band' = startup_band(eeprom)
  /\ cur_vfo' = startup_vfo(eeprom)
  /\ f_vfo' = [f_vfo EXCEPT ![cur_band'][cur_vfo'] =
                  reload_frequency(eeprom, cur_vfo', cur_band')]
  /\ sideband' = startup_sideband(eeprom)
  /\ relay' = set_band_relay(cur_band')
  /\ thresh' = startup_thresh(eeprom)
  /\ dds' = f_vfo'[cur_band'][cur_vfo'] + f_lo[sideband']
  /\ lo' = f_lo[sideband']
  /\ clk12' = <<0, 0>>
  /\ tx_preset' = startup_tx_preset(eeprom)
  /\ dac' = tx_preset'[cur_band']
  /\ pc' = "idle"
  /\ UNCHANGED <<eeprom, f_lo, split, txrx, runseconds10s, knob, runseconds10,
                 locals, bounds, committed>>

\* The routines' local variables are dead once the routine has returned
LocalsReset ==
  /\ menu' = 0 /\ mpos' = 0 /\ m' = 0 /\ key' = 0 /\ fx' = 0 /\ f' = <<0, 0>>
  /\ t1' = 0 /\ sval' = 0 /\ wait' = 0 /\ runsecs10thresh' = 0 /\ sb' = 0 /\ v1' = 0

\* Power is switched off and on again: the RAM is lost, the EEPROM is kept
PowerCycle ==
  /\ pc # "boot"
  /\ pc' = "boot"
  /\ cur_band' = 0 /\ cur_vfo' = 0 /\ sideband' = 1
  /\ f_vfo' = f_vfo_init /\ f_lo' = f_lo_init
  /\ thresh' = 5 /\ tx_preset' = tx_preset_init /\ split' = 0
  /\ relay' = 0 /\ dds' = 0 /\ lo' = 0 /\ clk12' = <<>> /\ dac' = 0
  /\ txrx' = 0 /\ runseconds10s' = 0
  /\ laststate' = 0 /\ tuningknob' = 0 /\ tuningcount' = 0 /\ runseconds10' = 0
  /\ LocalsReset
  /\ UNCHANGED <<eeprom, bounds, committed>>

(***************************************************************************)
(* Interrupt handlers                                                      *)
(***************************************************************************)
gray_to_state(gray) == CASE gray = 0 -> 0 [] gray = 1 -> 1 [] gray = 2 -> 3 [] OTHER -> 2

\* Variant: the phase difference is not masked to two bits
encoder_step_unmasked(last, state) == (last - state) - 2

encoder_step(last, state) == ((last - state) % 4) - 2

\* ISR(PCINT0_vect), reading the encoder pins as gray; nenc counts the phase
\* changes it has seen
PCINT0(gray) ==
  /\ pc # "boot"
  /\ IF gray_to_state(gray) # laststate
       THEN /\ nenc < enc_limit
            /\ tuningknob' = I16(tuningknob + encoder_step(laststate, gray_to_state(gray)))
            /\ laststate' = gray_to_state(gray)
            /\ tuningcount' = tuningcount + 1
            /\ nenc' = nenc + 1
       ELSE UNCHANGED <<knob, nenc>>
  /\ held' = (IF rd_pc = "off" THEN held ELSE held \cup {tuningknob'})
  /\ UNCHANGED <<pc, eeprom, radio, hw, txrx, runseconds10s, runseconds10,
                 locals, tick_limit, key_limit, enc_limit, rd, nkeys, committed>>

\* The load of tuningknob is not followed
NoRead == rd_pc = "off" /\ rd_byte = 0 /\ rd_val = 0 /\ held = {}

\* ISR(TIMER1_COMPA_vect)
TIMER1_COMPA ==
  /\ pc # "boot"
  /\ runseconds10 # tick_limit
  /\ runseconds10' = long_add(runseconds10, 1)
  /\ tuningcount' = 0
  /\ UNCHANGED <<pc, eeprom, radio, hw, txrx, runseconds10s, laststate,
                 tuningknob, locals, bounds, committed>>

(***************************************************************************)
(* Tuning                                                                  *)
(***************************************************************************)
calc_tuningfactor == I16(tuningcount * (tuningcount \div 2))

\* Variant: the tuned frequency is clamped to the edges of the current band
tune_frequency_clamped(fq) ==
  IF tuningknob > 2
    THEN (IF fq + calc_tuningfactor > band_f1[cur_band]
            THEN band_f1[cur_band] ELSE fq + calc_tuningfactor)
  ELSE IF tuningknob < -2
    THEN (IF fq - calc_tuningfactor < band_f0[cur_band]
            THEN band_f0[cur_band] ELSE fq - calc_tuningfactor)
  ELSE 0

\* Return value of tune_frequency(fq): 0 when the knob is within the deadband
tune_frequency(fq) ==
  IF tuningknob > 2 THEN fq + calc_tuningfactor
  ELSE IF tuningknob < -2 THEN fq - calc_tuningfactor
  ELSE 0

\* tuningknob after tune_frequency
tune_knob == IF tuningknob > 2 \/ tuningknob < -2 THEN 0 ELSE tuningknob

\* ftmp = tune_frequency(fq); if(ftmp) fq = ftmp;
tuned(fq) == IF tune_frequency(fq) # 0 THEN tune_frequency(fq) ELSE fq

\* ... and the DDS programming that follows when ftmp is not 0
tuned_dds(fq, d) == IF tune_frequency(fq) # 0 THEN tune_frequency(fq) + f_lo[sideband] ELSE d

(***************************************************************************)
(* Main loop                                                               *)
(***************************************************************************)
\* The live frequency and the DDS after the tune_frequency call that opens
\* an iteration of the main loop
main_f_vfo == [f_vfo EXCEPT ![cur_band][cur_vfo] = tuned(f_vfo[cur_band][cur_vfo])]
main_dds == tuned_dds(f_vfo[cur_band][cur_vfo], dds)

\* The TX/RX check that closes an iteration of the main loop; d is the DDS
\* frequency before it, ptt1 and ptt2 are the two readings of ADC7 > 1000.
\* The radio state it reads is the one the iteration leaves.
txrx_mid(ptt1) == IF ptt1 /\ txrx = 0 THEN 1 ELSE txrx
txrx_check(d, ptt1, ptt2) ==
  IF runseconds10 > runseconds10s
    THEN LET d1 == IF ptt1 /\ txrx = 0 /\ split' # 0
                     THEN f_vfo'[cur_band'][1 - cur_vfo'] + f_lo'[sideband'] ELSE d
             d2 == IF ~ptt2 /\ txrx_mid(ptt1) = 1 /\ split' # 0
                     THEN f_vfo'[cur_band'][cur_vfo'] + f_lo'[sideband'] ELSE d1
         IN /\ txrx' = (IF ~ptt2 /\ txrx_mid(ptt1) = 1 THEN 0 ELSE txrx_mid(ptt1))
            /\ dds' = d2
            /\ runseconds10s' = runseconds10
    ELSE /\ txrx' = txrx
         /\ dds' = d
         /\ runseconds10s' = runseconds10s

\* Variant: an iteration that has tuned also writes the frequency to its slot
MainLoopStoring(ptt1, ptt2) ==
  /\ pc = "idle"
  /\ f_vfo' = main_f_vfo
  /\ tuningknob' = tune_knob
  /\ eeprom' = (IF f_vfo' # f_vfo
                  THEN store_frequency(eeprom, cur_vfo, cur_band, f_vfo'[cur_band][cur_vfo])
                  ELSE eeprom)
  /\ UNCHANGED <<cur_band, cur_vfo, sideband, f_lo, thresh, tx_preset, split, relay>>
  /\ txrx_check(main_dds, ptt1, ptt2)
  /\ UNCHANGED <<pc, lo, clk12, dac, laststate, tuningcount, runseconds10,
                 locals, bounds, committed>>

\* An iteration with no key pressed
MainLoop(ptt1, ptt2) ==
  /\ pc = "idle"
  /\ f_vfo' = main_f_vfo
  /\ tuningknob' = tune_knob
  /\ UNCHANGED <<cur_band, cur_vfo, sideband, f_lo, thresh, tx_preset, split, relay>>
  /\ txrx_check(main_dds, ptt1, ptt2)
  /\ UNCHANGED <<pc, eeprom, lo, clk12, dac, laststate, tuningcount, runseconds10,
                 locals, bounds, committed>>

\* The radio is left alone on receive until the tick count is r: the timer
\* ticks and every main loop iteration after a tick takes the count over
LongIdle(r) ==
  /\ pc = "idle" /\ txrx = 0 /\ tuningknob = 0
  /\ runseconds10 = 0
  /\ runseconds10' = r
  /\ runseconds10s' = r
  /\ tuningcount' = 0
  /\ UNCHANGED <<pc, eeprom, radio, hw, txrx, laststate, tuningknob, locals,
                 bounds, committed>>

\* key == 1: store the operation and enter the menu
MenuKey ==
  /\ pc = "idle"
  /\ nkeys < key_limit
  /\ nkeys' = nkeys + 1
  /\ f_vfo' = main_f_vfo
  /\ tuningknob' = tune_knob
  /\ dds' = main_dds
  /\ eeprom' = store_current_operation(
                  store_frequency(eeprom, cur_vfo, cur_band, f_vfo'[cur_band][cur_vfo]),
                  cur_band, cur_vfo, sideband, f_vfo'[cur_band][cur_vfo])
  /\ committed' = <<cur_band, cur_vfo, sideband, f_vfo'[cur_band][cur_vfo]>>
  /\ pc' = "menu"
  /\ menu' = 0
  /\ mpos' = cur_band
  /\ UNCHANGED <<cur_band, cur_vfo, sideband, f_lo, thresh, tx_preset, split, relay,
                 lo, clk12, dac, txrx, runseconds10s, laststate, tuningcount, runseconds10,
                 m, key, fx, f, t1, sval, wait, runsecs10thresh, sb, v1,
                 limits, nenc>>

\* key == 2: store the current operation
StoreKey(ptt1, ptt2) ==
  /\ pc = "idle"
  /\ nkeys < key_limit
  /\ nkeys' = nkeys + 1
  /\ f_vfo' = main_f_vfo
  /\ tuningknob' = tune_knob
  /\ eeprom' = store_current_operation(eeprom, cur_band, cur_vfo, sideband,
                                       f_vfo'[cur_band][cur_vfo])
  /\ committed' = <<cur_band, cur_vfo, sideband, f_vfo'[cur_band][cur_vfo]>>
  /\ UNCHANGED <<cur_band, cur_vfo, sideband, f_lo, thresh, tx_preset, split, relay>>
  /\ txrx_check(main_dds, ptt1, ptt2)
  /\ UNCHANGED <<pc, lo, clk12, dac, laststate, tuningcount, runseconds10,
                 locals, limits, nenc>>

\* key == 3: enter tx_preset_adjust()
PresetKey ==
  /\ pc = "idle"
  /\ nkeys < key_limit
  /\ nkeys' = nkeys + 1
  /\ f_vfo' = main_f_vfo
  /\ tuningknob' = tune_knob
  /\ dds' = main_dds
  /\ v1' = tx_preset[cur_band]
  /\ dac' = v1'
  /\ clk12' = clk12
  /\ pc' = "tx_adj"
  /\ UNCHANGED <<eeprom, cur_band, cur_vfo, sideband, f_lo, thresh, tx_preset, split,
                 relay, lo, txrx, runseconds10s, laststate, tuningcount, runseconds10,
                 menu, mpos, m, key, fx, f, t1, sval, wait, runsecs10thresh, sb,
                 limits, nenc, committed>>

\* Variant: the next-band key stops at the last band
NextBandKeyNoWrap(ptt1, ptt2) ==
  /\ pc = "idle"
  /\ nkeys < key_limit
  /\ nkeys' = nkeys + 1
  /\ tuningknob' = tune_knob
  /\ cur_band' = (IF cur_band < MAXBANDS - 1 THEN cur_band + 1 ELSE cur_band)
  /\ relay' = set_band_relay(cur_band')
  /\ lo' = set_band_lo(cur_band')
  /\ f_vfo' = [main_f_vfo EXCEPT ![cur_band'][cur_vfo] =
                  reload_frequency(eeprom, cur_vfo, cur_band')]
  /\ eeprom' = [eeprom EXCEPT ![OFF_LAST_BAND_USED] = U8(cur_band')]
  /\ committed' = <<>>
  /\ dac' = tx_preset[cur_band']
  /\ clk12' = clk12
  /\ UNCHANGED <<cur_vfo, sideband, f_lo, thresh, tx_preset, split>>
  /\ txrx_check(f_vfo'[cur_band'][cur_vfo] + f_lo[sideband], ptt1, ptt2)
  /\ UNCHANGED <<pc, laststate, tuningcount, runseconds10, locals, limits, nenc>>

\* key == 4: fast QSY to the next band
NextBandKey(ptt1, ptt2) ==
  /\ pc = "idle"
  /\ nkeys < key_limit
  /\ nkeys' = nkeys + 1
  /\ tuningknob' = tune_knob
  /\ cur_band' = (IF cur_band < MAXBANDS - 1 THEN cur_band + 1 ELSE 0)
  /\ relay' = set_band_relay(cur_band')
  /\ lo' = set_band_lo(cur_band')
  /\ f_vfo' = [main_f_vfo EXCEPT ![cur_band'][cur_vfo] =
                  reload_frequency(eeprom, cur_vfo, cur_band')]
  /\ eeprom' = [eeprom EXCEPT ![OFF_LAST_BAND_USED] = U8(cur_band')]
  /\ committed' = <<>>
  /\ dac' = tx_preset[cur_band']
  /\ clk12' = clk12
  /\ UNCHANGED <<cur_vfo, sideband, f_lo, thresh, tx_preset, split>>
  /\ txrx_check(f_vfo'[cur_band'][cur_vfo] + f_lo[sideband], ptt1, ptt2)
  /\ UNCHANGED <<pc, laststate, tuningcount, runseconds10, locals, limits, nenc>>

(***************************************************************************)
(* Menu: menux() and navigate_thru_item_list()                             *)
(***************************************************************************)
menu_items == [n \in 0 .. 5 |-> CASE n = 0 -> 4 [] n = 3 -> 2 [] n = 5 -> 2 [] OTHER -> 1]

\* Position menux() opens menu n at
menu_start(n) == CASE n = 0 -> cur_band [] n = 1 -> cur_vfo [] n = 2 -> sideband
                   [] n = 4 -> split [] OTHER -> 0

\* mpos after the two knob tests of the loop body
nav_mpos ==
  IF tuningknob > 2 THEN (IF mpos < menu_items[menu] THEN mpos + 1 ELSE 0)
  ELSE IF tuningknob < -2 THEN (IF mpos > 0 THEN mpos - 1 ELSE menu_items[menu])
  ELSE mpos

\* key read 0: the loop body with its preview settings
NavTurn ==
  /\ pc = "menu"
  /\ mpos' = nav_mpos
  /\ tuningknob' = tune_knob
  /\ dds' = (IF menu = 1 THEN f_vfo[cur_band][mpos'] + f_lo[sideband] ELSE dds)
  /\ lo' = (IF menu = 2 THEN f_lo[mpos'] ELSE lo)
  /\ UNCHANGED <<pc, eeprom, radio, clk12, dac, txrx, runseconds10s, laststate, tuningcount,
                 runseconds10, menu, m, key, fx, f, t1, sval, wait, runsecs10thresh,
                 sb, v1, bounds, committed>>

\* key read k # 0: navigate_thru_item_list() returns, menux() goes on to the
\* next menu or returns to main()
NavKey(k) ==
  /\ pc = "menu"
  /\ lo' = f_lo[sideband]
  /\ IF k = 2
       THEN /\ m' = menu * 10 + mpos
            /\ pc' = "switch"
            /\ menu' = 0 /\ mpos' = 0
       ELSE IF k = 3
       THEN /\ m' = -3
            /\ pc' = "switch"
            /\ menu' = 0 /\ mpos' = 0
       ELSE IF menu < 5
       THEN /\ menu' = menu + 1
            /\ mpos' = menu_start(menu + 1)
            /\ UNCHANGED <<pc, m>>
       ELSE /\ m' = -2
            /\ pc' = "switch"
            /\ menu' = 0 /\ mpos' = 0
  /\ UNCHANGED <<eeprom, radio, dds, clk12, dac, txrx, runseconds10s, knob, runseconds10,
                 key, fx, f, t1, sval, wait, runsecs10thresh, sb, v1, bounds, committed>>

(***************************************************************************)
(* main(): switch(m) after menux()                                         *)
(***************************************************************************)
ToIdle == pc' = "idle" /\ LocalsReset

\* case 0..4: band changed
BandSelect(ptt1, ptt2) ==
  /\ pc = "switch" /\ m \in 0 .. 4
  /\ cur_band' = m
  /\ relay' = set_band_relay(cur_band')
  /\ lo' = set_band_lo(cur_band')
  /\ f_vfo' = [f_vfo EXCEPT ![cur_band'][cur_vfo] =
                  reload_frequency(eeprom, cur_vfo, cur_band')]
  /\ eeprom' = [eeprom EXCEPT ![OFF_LAST_BAND_USED] = U8(cur_band')]
  /\ committed' = <<>>
  /\ dac' = tx_preset[cur_band']
  /\ clk12' = clk12
  /\ UNCHANGED <<cur_vfo, sideband, f_lo, thresh, tx_preset, split>>
  /\ txrx_check(f_vfo'[cur_band'][cur_vfo] + f_lo[sideband], ptt1, ptt2)
  /\ ToIdle
  /\ UNCHANGED <<knob, runseconds10, bounds>>

\* Variant: the VFO case also switches the band hardware, as the band case does
VfoSelectSetBand(ptt1, ptt2) ==
  /\ pc = "switch" /\ m \in {10, 11}
  /\ cur_vfo' = m - 10
  /\ relay' = set_band_relay(cur_band)
  /\ lo' = set_band_lo(cur_band)
  /\ f_vfo' = [f_vfo EXCEPT ![cur_band][cur_vfo'] =
                  reload_frequency(eeprom, cur_vfo', cur_band)]
  /\ eeprom' = [eeprom EXCEPT ![OFF_LAST_VFO_USED] = U8(cur_vfo')]
  /\ committed' = <<>>
  /\ UNCHANGED <<cur_band, sideband, f_lo, thresh, tx_preset, split>>
  /\ txrx_check(f_vfo'[cur_band][cur_vfo'] + f_lo[sideband], ptt1, ptt2)
  /\ ToIdle
  /\ UNCHANGED <<clk12, dac, knob, runseconds10, bounds>>

\* case 10, 11: VFO changed
VfoSelect(ptt1, ptt2) ==
  /\ pc = "switch" /\ m \in {10, 11}
  /\ cur_vfo' = m - 10
  /\ f_vfo' = [f_vfo EXCEPT ![cur_band][cur_vfo'] =
                  reload_frequency(eeprom, cur_vfo', cur_band)]
  /\ eeprom' = [eeprom EXCEPT ![OFF_LAST_VFO_USED] = U8(cur_vfo')]
  /\ committed' = <<>>
  /\ UNCHANGED <<cur_band, sideband, f_lo, thresh, tx_preset, split, relay>>
  /\ txrx_check(f_vfo'[cur_band][cur_vfo'] + f_lo[sideband], ptt1, ptt2)
  /\ ToIdle
  /\ UNCHANGED <<lo, clk12, dac, knob, runseconds10, bounds>>

\* Variant: the sideband case leaves the LO as it is
SidebandSelectNoLo(ptt1, ptt2) ==
  /\ pc = "switch" /\ m \in {20, 21}
  /\ sideband' = m - 20
  /\ UNCHANGED <<cur_band, cur_vfo, f_vfo, f_lo, thresh, tx_preset, split, relay>>
  /\ txrx_check(f_vfo[cur_band][cur_vfo] + f_lo[sideband'], ptt1, ptt2)
  /\ ToIdle
  /\ UNCHANGED <<eeprom, lo, clk12, dac, knob, runseconds10, bounds, committed>>

\* case 20, 21: sideband changed
SidebandSelect(ptt1, ptt2) ==
  /\ pc = "switch" /\ m \in {20, 21}
  /\ sideband' = m - 20
  /\ lo' = f_lo[sideband']
  /\ UNCHANGED <<cur_band, cur_vfo, f_vfo, f_lo, thresh, tx_preset, split, relay>>
  /\ txrx_check(f_vfo[cur_band][cur_vfo] + f_lo[sideband'], ptt1, ptt2)
  /\ ToIdle
  /\ UNCHANGED <<eeprom, clk12, dac, knob, runseconds10, bounds, committed>>

\* case 40, 41: split mode
SplitSelect(ptt1, ptt2) ==
  /\ pc = "switch" /\ m \in {40, 41}
  /\ split' = m - 40
  /\ UNCHANGED <<cur_band, cur_vfo, sideband, f_vfo, f_lo, thresh, tx_preset, relay>>
  /\ txrx_check(dds, ptt1, ptt2)
  /\ ToIdle
  /\ UNCHANGED <<eeprom, lo, clk12, dac, knob, runseconds10, bounds, committed>>

\* menux() returned -3 (quit) or -2 (end of the menus): no case applies
MenuQuit(ptt1, ptt2) ==
  /\ pc = "switch" /\ m \in {-3, -2}
  /\ UNCHANGED radio
  /\ txrx_check(dds, ptt1, ptt2)
  /\ ToIdle
  /\ UNCHANGED <<eeprom, lo, clk12, dac, knob, runseconds10, bounds, committed>>

(***************************************************************************)
(* Adjust routines                                                         *)
(***************************************************************************)
\* case 52 of switch(m): enter tx_preset_adjust()
PresetStart ==
  /\ pc = "switch" /\ m = 52
  /\ v1' = tx_preset[cur_band]
  /\ dac' = v1'
  /\ clk12' = clk12
  /\ pc' = "tx_adj"
  /\ m' = 0
  /\ UNCHANGED <<eeprom, radio, dds, lo, txrx, runseconds10s, knob, runseconds10,
                 menu, mpos, key, fx, f, t1, sval, wait, runsecs10thresh, sb,
                 bounds, committed>>

\* v1 after the two knob tests of the loop body of tx_preset_adjust()
tx_adj_v1 ==
  IF tuningknob >= 1 THEN (IF v1 < 4095 THEN I16(v1 + calc_tuningfactor) ELSE 4095)
  ELSE IF tuningknob <= -1 THEN (IF v1 > 0 THEN I16(v1 - calc_tuningfactor) ELSE 0)
  ELSE v1

\* tx_preset_adjust(): key read 0, the loop body
PresetTurn ==
  /\ pc = "tx_adj"
  /\ tuningknob # 0
  /\ v1' = tx_adj_v1
  /\ dac' = v1'
  /\ clk12' = clk12
  /\ tuningknob' = 0
  /\ UNCHANGED <<pc, eeprom, radio, dds, lo, txrx, runseconds10s, laststate,
                 tuningcount, runseconds10, menu, mpos, m, key, fx, f, t1, sval,
                 wait, runsecs10thresh, sb, bounds, committed>>

\* tx_preset_adjust(): key read k # 0 ends it, key 2 stores the value
PresetEnd(k, ptt1, ptt2) ==
  /\ pc = "tx_adj"
  /\ IF k = 2
       THEN /\ tx_preset' = [tx_preset EXCEPT ![cur_band] = v1]
            /\ eeprom' = store_tx_preset(eeprom, v1, cur_band)
            /\ committed' = <<>>
       ELSE UNCHANGED <<tx_preset, eeprom, committed>>
  /\ UNCHANGED <<cur_band, cur_vfo, sideband, f_vfo, f_lo, thresh, split, relay>>
  /\ txrx_check(dds, ptt1, ptt2)
  /\ ToIdle
  /\ UNCHANGED <<lo, clk12, dac, knob, runseconds10, bounds>>

\* case 32 of switch(m): enter set_scan_threshold()
ThreshStart ==
  /\ pc = "switch" /\ m = 32
  /\ pc' = "thresh"
  /\ m' = 0
  /\ UNCHANGED <<eeprom, radio, hw, txrx, runseconds10s, knob, runseconds10,
                 menu, mpos, key, fx, f, t1, sval, wait, runsecs10thresh, sb, v1,
                 bounds, committed>>

\* Variant: the threshold follows the knob without the tests against 12 and 0
thresh_turn_open ==
  IF tuningknob > 2 THEN thresh + 1
  ELSE IF tuningknob < -2 THEN thresh - 1
  ELSE thresh

\* thresh after the two knob tests of the loop body of set_scan_threshold()
thresh_turn ==
  IF tuningknob > 2 THEN (IF thresh < 12 THEN thresh + 1 ELSE thresh)
  ELSE IF tuningknob < -2 THEN (IF thresh > 0 THEN thresh - 1 ELSE thresh)
  ELSE thresh

\* set_scan_threshold(): one pass of the loop, key read k at its end;
\* k # 0 ends the routine, key 2 stores the threshold
ThreshPoll(k, ptt1, ptt2) ==
  /\ pc = "thresh"
  /\ thresh' = thresh_turn
  /\ tuningknob' = tune_knob
  /\ UNCHANGED <<cur_band, cur_vfo, sideband, f_vfo, f_lo, tx_preset, split, relay>>
  /\ IF k = 0
       THEN UNCHANGED <<pc, eeprom, dds, txrx, runseconds10s, locals, committed>>
       ELSE /\ IF k = 2
                 THEN /\ eeprom' = [eeprom EXCEPT ![OFF_THRESH] = U8(thresh')]
                      /\ committed' = <<>>
                 ELSE UNCHANGED <<eeprom, committed>>
            /\ txrx_check(dds, ptt1, ptt2)
            /\ ToIdle
  /\ UNCHANGED <<lo, clk12, dac, laststate, tuningcount, runseconds10, bounds>>

\* case 50, 51 of switch(m): enter set_lo_frequencies(m - 50)
LoSetStart ==
  /\ pc = "switch" /\ m \in {50, 51}
  /\ sb' = m - 50
  /\ dds' = f_vfo[cur_band][cur_vfo] + f_lo[sb']
  /\ lo' = f_lo[sb']
  /\ pc' = "lo_set"
  /\ UNCHANGED <<eeprom, radio, clk12, dac, txrx, runseconds10s, knob, runseconds10,
                 menu, mpos, m, key, fx, f, t1, sval, wait, runsecs10thresh, v1,
                 bounds, committed>>

\* f_lo after the two knob tests of the loop body of set_lo_frequencies()
lo_set_f_lo ==
  IF tuningknob > 2 THEN [f_lo EXCEPT ![sb] = f_lo[sb] + 10]
  ELSE IF tuningknob < -2 THEN [f_lo EXCEPT ![sb] = f_lo[sb] - 10]
  ELSE f_lo

\* set_lo_frequencies(): one pass of the loop, key read k at its end; k # 0
\* ends the routine and main() takes the value over when it is > 0
LoSetPoll(k, ptt1, ptt2) ==
  /\ pc = "lo_set"
  /\ f_lo' = lo_set_f_lo
  /\ tuningknob' = tune_knob
  /\ UNCHANGED <<cur_band, cur_vfo, sideband, f_vfo, thresh, tx_preset, split, relay>>
  /\ IF k = 0
       THEN /\ lo' = (IF tune_knob # tuningknob THEN f_lo'[sb] ELSE lo)
            /\ UNCHANGED <<pc, dds, txrx, runseconds10s, locals>>
       ELSE /\ lo' = (IF k = 2 /\ f_lo'[sb] > 0 THEN f_lo'[sideband]
                      ELSE IF tune_knob # tuningknob THEN f_lo'[sb] ELSE lo)
            /\ txrx_check(dds, ptt1, ptt2)
            /\ ToIdle
  /\ UNCHANGED <<eeprom, clk12, dac, laststate, tuningcount, runseconds10, bounds, committed>>

(***************************************************************************)
(* scan_f0_f1(): sweep between the two VFO frequencies of the band         *)
(***************************************************************************)
\* Signal levels get_s_value() is taken to return
Svals == {2, 13}

\* Spans f[1] - f[0] up to this many Hz are swept
MaxSpan == 250

DWELL == 30

\* Outcomes of the loop condition runsecs10thresh + 30 > runseconds10. Where
\* the sum of the two longs overflows the behaviour is undefined and the
\* condition may come out either way (false when the sum wraps around).
dwell_cond ==
  IF runsecs10thresh > MaxLong - DWELL THEN BOOLEAN
  ELSE {runsecs10thresh + DWELL > runseconds10}
SCANSTEP == 100

\* f[0], f[1] taken in VFO order
scan_bounds_unswapped == <<f_vfo[cur_band][0], f_vfo[cur_band][1]>>

\* f[0], f[1] after the swap
scan_bounds ==
  IF f_vfo[cur_band][0] > f_vfo[cur_band][1]
    THEN <<f_vfo[cur_band][1], f_vfo[cur_band][0]>>
    ELSE <<f_vfo[cur_band][0], f_vfo[cur_band][1]>>

\* case 30 of switch(m): enter scan_f0_f1(); the local wait is not initialised
ScanStart(w) ==
  /\ pc = "switch" /\ m = 30
  /\ scan_bounds[2] - scan_bounds[1] <= MaxSpan
  /\ f' = scan_bounds
  /\ fx' = f'[1]
  /\ wait' = w
  /\ key' = 0
  /\ pc' = (IF f'[1] < f'[2] THEN "scan_probe" ELSE "scan_spin")
  /\ UNCHANGED <<eeprom, radio, hw, txrx, runseconds10s, knob, runseconds10,
                 menu, mpos, m, t1, sval, runsecs10thresh, sb, v1, bounds, committed>>

\* The end of a pass with main() taking the result over unchecked
ScanTailUnchecked(k, s, d, ptt1, ptt2) ==
  /\ tuningknob' = tune_knob
  /\ IF k = 2 \/ k = 3
       THEN /\ f_vfo' = (IF k = 2
                           THEN [f_vfo EXCEPT ![cur_band][cur_vfo] = tuned(fx)]
                           ELSE f_vfo)
            /\ UNCHANGED <<cur_band, cur_vfo, sideband, f_lo, thresh, tx_preset,
                           split, relay>>
            /\ txrx_check(IF k = 2
                            THEN tuned(fx) + f_lo[sideband]
                            ELSE tuned_dds(fx, d), ptt1, ptt2)
            /\ ToIdle
       ELSE /\ fx' = (IF tuned(fx) + SCANSTEP < f[2] THEN tuned(fx) + SCANSTEP ELSE f[1])
            /\ dds' = tuned_dds(fx, d)
            /\ key' = 0
            /\ sval' = s
            /\ wait' = 0
            /\ pc' = "scan_probe"
            /\ UNCHANGED <<radio, txrx, runseconds10s, menu, mpos, m, f, t1,
                           runsecs10thresh, sb, v1>>
  /\ UNCHANGED <<eeprom, lo, clk12, dac, laststate, tuningcount, runseconds10, bounds,
                 committed>>

\* The end of a pass of the for loop, reached with key k and DDS frequency d:
\* manual tuning, the key handler, then the next probe frequency; on return
\* main() takes the result over when is_mem_freq_ok() accepts it
ScanTail(k, s, d, ptt1, ptt2) ==
  /\ tuningknob' = tune_knob
  /\ IF k = 2 \/ k = 3
       THEN /\ f_vfo' = (IF k = 2 /\ is_mem_freq_ok(tuned(fx), cur_band)
                           THEN [f_vfo EXCEPT ![cur_band][cur_vfo] = tuned(fx)]
                           ELSE f_vfo)
            /\ UNCHANGED <<cur_band, cur_vfo, sideband, f_lo, thresh, tx_preset,
                           split, relay>>
            /\ txrx_check(IF k = 2 /\ is_mem_freq_ok(tuned(fx), cur_band)
                            THEN tuned(fx) + f_lo[sideband]
                            ELSE tuned_dds(fx, d), ptt1, ptt2)
            /\ ToIdle
       ELSE /\ fx' = (IF tuned(fx) + SCANSTEP < f[2] THEN tuned(fx) + SCANSTEP ELSE f[1])
            /\ dds' = tuned_dds(fx, d)
            /\ key' = 0
            /\ sval' = s
            /\ wait' = 0
            /\ pc' = "scan_probe"
            /\ UNCHANGED <<radio, txrx, runseconds10s, menu, mpos, m, f, t1,
                           runsecs10thresh, sb, v1>>
  /\ UNCHANGED <<eeprom, lo, clk12, dac, laststate, tuningcount, runseconds10, bounds,
                 committed>>

\* Start of a pass: key k read, DDS set to the probe frequency, level s read.
\* A level above the threshold with no key leads into the hold loop, a set
\* wait flag into the dwell loop, anything else to the end of the pass.
ScanProbe(k, s, ptt1, ptt2) ==
  /\ pc = "scan_probe"
  /\ IF s > thresh /\ k = 0
       THEN /\ pc' = "scan_hold"
            /\ key' = k /\ sval' = s
            /\ dds' = fx + f_lo[sideband]
            /\ UNCHANGED <<eeprom, radio, lo, clk12, dac, txrx, runseconds10s, knob,
                           runseconds10, menu, mpos, m, fx, f, t1, wait,
                           runsecs10thresh, sb, v1, bounds, committed>>
       ELSE IF wait # 0
       THEN /\ pc' = "scan_dwell"
            /\ key' = k /\ sval' = s
            /\ dds' = fx + f_lo[sideband]
            /\ runsecs10thresh' = runseconds10
            /\ UNCHANGED <<eeprom, radio, lo, clk12, dac, txrx, runseconds10s, knob,
                           runseconds10, menu, mpos, m, fx, f, t1, wait,
                           sb, v1, bounds, committed>>
       ELSE ScanTail(k, s, fx + f_lo[sideband], ptt1, ptt2)

\* A pass of the hold loop that drops the tuning delta
ScanHoldNoTune(k, s) ==
  /\ pc = "scan_hold"
  /\ sval' = s
  /\ key' = k
  /\ wait' = 1
  /\ fx' = fx
  /\ dds' = tuned_dds(fx, dds)
  /\ tuningknob' = tune_knob
  /\ IF s > thresh /\ k = 0
       THEN UNCHANGED <<pc, runsecs10thresh>>
       ELSE /\ pc' = "scan_dwell"
            /\ runsecs10thresh' = runseconds10
  /\ UNCHANGED <<eeprom, radio, lo, clk12, dac, txrx, runseconds10s, laststate, tuningcount,
                 runseconds10, menu, mpos, m, f, t1, sb, v1, bounds, committed>>

\* A pass of the hold loop: level s and key k read, wait set, manual tuning
ScanHold(k, s) ==
  /\ pc = "scan_hold"
  /\ sval' = s
  /\ key' = k
  /\ wait' = 1
  /\ fx' = tuned(fx)
  /\ dds' = tuned_dds(fx, dds)
  /\ tuningknob' = tune_knob
  /\ IF s > thresh /\ k = 0
       THEN UNCHANGED <<pc, runsecs10thresh>>
       ELSE /\ pc' = "scan_dwell"
            /\ runsecs10thresh' = runseconds10
  /\ UNCHANGED <<eeprom, radio, lo, clk12, dac, txrx, runseconds10s, laststate, tuningcount,
                 runseconds10, menu, mpos, m, f, t1, sb, v1, bounds, committed>>

\* A pass of the dwell loop: key k read (a key clears the start time), manual
\* tuning
ScanDwell(k) ==
  /\ pc = "scan_dwell"
  /\ TRUE \in dwell_cond
  /\ key' = k
  /\ runsecs10thresh' = (IF k # 0 THEN 0 ELSE runsecs10thresh)
  /\ fx' = tuned(fx)
  /\ dds' = tuned_dds(fx, dds)
  /\ tuningknob' = tune_knob
  /\ UNCHANGED <<pc, eeprom, radio, lo, clk12, dac, txrx, runseconds10s, laststate,
                 tuningcount, runseconds10, menu, mpos, m, f, t1, sval, wait,
                 sb, v1, bounds, committed>>

\* The dwell loop ending one tick early
ScanDwellEndEarly(ptt1, ptt2) ==
  /\ pc = "scan_dwell"
  /\ ~(runsecs10thresh + DWELL > runseconds10 + 1)
  /\ ScanTail(key, sval, dds, ptt1, ptt2)

\* The dwell loop ends
ScanDwellEnd(ptt1, ptt2) ==
  /\ pc = "scan_dwell"
  /\ FALSE \in dwell_cond
  /\ ScanTail(key, sval, dds, ptt1, ptt2)

(***************************************************************************)
(* scan_vfoa_vfob(): alternate between VFO A and VFO B of the band         *)
(***************************************************************************)
VFOBIT == 268435456

\* case 31 of switch(m): enter scan_vfoa_vfob()
VScanStart ==
  /\ pc = "switch" /\ m = 31
  /\ t1' = 0
  /\ key' = 0
  /\ pc' = "vscan_probe"
  /\ UNCHANGED <<eeprom, radio, hw, txrx, runseconds10s, knob, runseconds10,
                 menu, mpos, m, fx, f, sval, wait, runsecs10thresh, sb, v1,
                 bounds, committed>>

\* f_vfo after manual tuning of the VFO being listened to
vscan_f_vfo == [f_vfo EXCEPT ![cur_band][t1] = tuned(f_vfo[cur_band][t1])]

\* Start of a pass that waits only after a level above the threshold
VScanProbeNoWait(k, s) ==
  /\ pc = "vscan_probe"
  /\ key' = k
  /\ sval' = s
  /\ dds' = f_vfo[cur_band][t1] + f_lo[sideband]
  /\ IF s > thresh /\ k = 0
       THEN /\ pc' = "vscan_hold"
            /\ UNCHANGED runsecs10thresh
       ELSE /\ pc' = "vscan_dwell"
            /\ runsecs10thresh' = (IF s <= thresh /\ k = 0 THEN 0 ELSE runseconds10)
  /\ UNCHANGED <<eeprom, radio, lo, clk12, dac, txrx, runseconds10s, knob, runseconds10,
                 menu, mpos, m, fx, f, t1, wait, sb, v1, bounds, committed>>

\* Start of a pass: key k read, DDS set to VFO t1, level s read
VScanProbe(k, s) ==
  /\ pc = "vscan_probe"
  /\ key' = k
  /\ sval' = s
  /\ dds' = f_vfo[cur_band][t1] + f_lo[sideband]
  /\ IF s > thresh /\ k = 0
       THEN /\ pc' = "vscan_hold"
            /\ UNCHANGED runsecs10thresh
       ELSE /\ pc' = "vscan_dwell"
            /\ runsecs10thresh' = runseconds10
  /\ UNCHANGED <<eeprom, radio, lo, clk12, dac, txrx, runseconds10s, knob, runseconds10,
                 menu, mpos, m, fx, f, t1, wait, sb, v1, bounds, committed>>

\* A pass of the hold loop: level s and key k read, manual tuning of VFO t1
VScanHold(k, s) ==
  /\ pc = "vscan_hold"
  /\ sval' = s
  /\ key' = k
  /\ f_vfo' = vscan_f_vfo
  /\ dds' = tuned_dds(f_vfo[cur_band][t1], dds)
  /\ tuningknob' = tune_knob
  /\ IF s > thresh /\ k = 0
       THEN /\ runsecs10thresh' = (IF tune_knob # tuningknob THEN runseconds10
                                   ELSE runsecs10thresh)
            /\ UNCHANGED pc
       ELSE /\ pc' = "vscan_dwell"
            /\ runsecs10thresh' = runseconds10
  /\ UNCHANGED <<eeprom, cur_band, cur_vfo, sideband, f_lo, thresh, tx_preset, split,
                 relay, lo, clk12, dac, txrx, runseconds10s, laststate, tuningcount,
                 runseconds10, menu, mpos, m, fx, f, t1, wait, sb, v1, bounds,
                 committed>>

\* A pass of the dwell loop: key k read (a key clears the start time), manual
\* tuning of VFO t1 (tuning restarts the dwell)
VScanDwell(k) ==
  /\ pc = "vscan_dwell"
  /\ TRUE \in dwell_cond
  /\ key' = k
  /\ f_vfo' = vscan_f_vfo
  /\ dds' = tuned_dds(f_vfo[cur_band][t1], dds)
  /\ tuningknob' = tune_knob
  /\ runsecs10thresh' = (IF tune_knob # tuningknob THEN runseconds10
                         ELSE IF k # 0 THEN 0 ELSE runsecs10thresh)
  /\ UNCHANGED <<pc, eeprom, cur_band, cur_vfo, sideband, f_lo, thresh, tx_preset,
                 split, relay, lo, clk12, dac, txrx, runseconds10s, laststate, tuningcount,
                 runseconds10, menu, mpos, m, fx, f, t1, sval, wait, sb, v1, bounds,
                 committed>>

\* Variant: the VFO in bit 27
vscan_result_bit27(t, fq) == t * (VFOBIT \div 2) + fq

\* Value scan_vfoa_vfob() returns on key 2: VFO in bit 28, frequency below
vscan_result(t, fq) == t * VFOBIT + fq

\* The dwell loop ends: manual tuning, the key handler, then the other VFO;
\* on return main() decodes the result when its frequency bits are not 0
VScanDwellEnd(ptt1, ptt2) ==
  /\ pc = "vscan_dwell"
  /\ FALSE \in dwell_cond
  /\ tuningknob' = tune_knob
  /\ IF key = 2 /\ vscan_result(t1, vscan_f_vfo[cur_band][t1]) % VFOBIT # 0
       THEN /\ cur_vfo' = vscan_result(t1, vscan_f_vfo[cur_band][t1]) \div VFOBIT
            /\ f_vfo' = [vscan_f_vfo EXCEPT ![cur_band][cur_vfo'] =
                            vscan_result(t1, vscan_f_vfo[cur_band][t1]) % VFOBIT]
            /\ UNCHANGED <<cur_band, sideband, f_lo, thresh, tx_preset, split, relay>>
            /\ txrx_check(f_vfo'[cur_band][cur_vfo'] + f_lo[sideband], ptt1, ptt2)
            /\ ToIdle
       ELSE IF key = 2 \/ key = 3
       THEN /\ f_vfo' = vscan_f_vfo
            /\ UNCHANGED <<cur_band, cur_vfo, sideband, f_lo, thresh, tx_preset,
                           split, relay>>
            /\ txrx_check(tuned_dds(f_vfo[cur_band][t1], dds), ptt1, ptt2)
            /\ ToIdle
       ELSE /\ f_vfo' = vscan_f_vfo
            /\ dds' = tuned_dds(f_vfo[cur_band][t1], dds)
            /\ key' = 0
            /\ t1' = 1 - t1
            /\ pc' = "vscan_probe"
            /\ UNCHANGED <<cur_band, cur_vfo, sideband, f_lo, thresh, tx_preset,
                           split, relay, txrx, runseconds10s, menu, mpos, m, fx, f,
                           sval, wait, runsecs10thresh, sb, v1>>
  /\ UNCHANGED <<eeprom, lo, clk12, dac, laststate, tuningcount, runseconds10, bounds,
                 committed>>

(***************************************************************************)
(* EEPROM contents at power-on                                             *)
(***************************************************************************)
\* The four bytes of a frequency slot, most significant first, for a value
\* below 2^31 and with bit 31 set in addition
slot_bytes(n) == <<n \div 16777216, (n \div 65536) % 256, (n \div 256) % 256, n % 256>>
slot_bytes_bit31(n) == [slot_bytes(n) EXCEPT ![1] = @ + 128]

\* Content of the slot of band b, VFO v, by kind: 0 blank, 1 just below the
\* lower edge, 2 lower edge, 3 upper edge, 4 just above the upper edge,
\* 5 inside the band, 6 zero, 7 inside the band but with bit 31 set
FreqKinds == 0 .. 7
slot_image(fk, b, v) ==
  CASE fk = 0 -> <<255, 255, 255, 255>>
    [] fk = 1 -> slot_bytes(band_f0[b] - 1)
    [] fk = 2 -> slot_bytes(band_f0[b])
    [] fk = 3 -> slot_bytes(band_f1[b])
    [] fk = 4 -> slot_bytes(band_f1[b] + 1)
    [] fk = 5 -> slot_bytes(band_f0[b] + 5000 + 200 * v)
    [] fk = 6 -> slot_bytes(0)
    [] OTHER -> slot_bytes_bit31(band_f0[b] + 5000 + 200 * v)

\* An EEPROM content: last-band byte bb, last-VFO bytes vb, sideband byte sbb,
\* frequency slots of kind fk, threshold byte tb, TX preset words pw
Image(bb, vb, sbb, fk, tb, pw) ==
  [a \in EeAddrs |->
     IF a = OFF_LAST_BAND_USED THEN bb
     ELSE IF a = OFF_LAST_VFO_USED THEN 255
     ELSE IF a = OFF_LAST_SIDEBAND_USED THEN sbb
     ELSE IF a < OFF_FREQ_DATA THEN vb
     ELSE IF a < OFF_TX_PRESET
       THEN slot_image(fk, (a - OFF_FREQ_DATA) \div 8, ((a - OFF_FREQ_DATA) % 8) \div 4)
                      [((a - OFF_FREQ_DATA) % 4) + 1]
     ELSE IF a < OFF_THRESH
       THEN (IF (a - OFF_TX_PRESET) % 2 = 0 THEN pw \div 256 ELSE pw % 256)
     ELSE tb]

Blank == Image(255, 255, 255, 0, 255, 65535)

\* Contents the operating model starts from
MainImages == {Blank, Image(0, 0, 0, 0, 5, 100), Image(3, 1, 1, 3, 12, 4095)}

\* Contents the startup load is checked on
LoadImage ==
  \E bb \in {0, 1, 2, 3, 4, 5, 9, 255}, vb \in {0, 1, 2, 255}, sbb \in {0, 1, 2, 255},
     fk \in FreqKinds, tb \in {0, 12, 13, 255},
     pw \in {0, 4095, 4096, 32767, 32768, 65535} :
       eeprom = Image(bb, vb, sbb, fk, tb, pw)

\* The operating model follows MainKeys key gestures at the main loop,
\* MainEnc encoder steps and MainTicks timer ticks
MainKeys == 2
MainEnc == 3
MainTicks == 31

(***************************************************************************)
(* Specifications                                                          *)
(***************************************************************************)
Keys == 1 .. 4
KeysOrNone == 0 .. 4

\* Readings of ADC7 > 1000 an iteration can take: the TX/RX check reads the
\* ADC only once the timer has moved on since the last check
Ptt == IF runseconds10 > runseconds10s THEN BOOLEAN ELSE {FALSE}

\* The operating model follows the timer while a scan dwells
DwellTick == pc \in {"scan_dwell", "vscan_dwell"} /\ TIMER1_COMPA

Init ==
  /\ PowerOn
  /\ eeprom \in MainImages
  /\ tick_limit = MainTicks /\ key_limit = MainKeys /\ enc_limit = MainEnc
  /\ NoRead
  /\ nkeys = 0 /\ nenc = 0
  /\ committed = <<>>

Next ==
  \/ Startup
  \/ PowerCycle
  \/ \E gray \in 0 .. 3 : PCINT0(gray)
  \/ DwellTick
  \/ \E ptt1, ptt2 \in Ptt : MainLoop(ptt1, ptt2)
  \/ MenuKey
  \/ \E ptt1, ptt2 \in Ptt : StoreKey(ptt1, ptt2)
  \/ PresetKey
  \/ \E ptt1, ptt2 \in Ptt : NextBandKey(ptt1, ptt2)
  \/ NavTurn
  \/ \E k \in Keys : NavKey(k)
  \/ \E ptt1, ptt2 \in Ptt : BandSelect(ptt1, ptt2)
  \/ \E ptt1, ptt2 \in Ptt : VfoSelect(ptt1, ptt2)
  \/ \E ptt1, ptt2 \in Ptt : SidebandSelect(ptt1, ptt2)
  \/ \E ptt1, ptt2 \in Ptt : SplitSelect(ptt1, ptt2)
  \/ \E ptt1, ptt2 \in Ptt : MenuQuit(ptt1, ptt2)
  \/ PresetStart
  \/ PresetTurn
  \/ \E k \in Keys, ptt1, ptt2 \in Ptt : PresetEnd(k, ptt1, ptt2)
  \/ ThreshStart
  \/ \E k \in KeysOrNone, ptt1, ptt2 \in Ptt : ThreshPoll(k, ptt1, ptt2)
  \/ LoSetStart
  \/ \E k \in KeysOrNone, ptt1, ptt2 \in Ptt : LoSetPoll(k, ptt1, ptt2)
  \/ \E w \in 0 .. 1 : ScanStart(w)
  \/ \E k \in KeysOrNone, s \in Svals, ptt1, ptt2 \in Ptt : ScanProbe(k, s, ptt1, ptt2)
  \/ \E k \in KeysOrNone, s \in Svals : ScanHold(k, s)
  \/ \E k \in KeysOrNone : ScanDwell(k)
  \/ \E ptt1, ptt2 \in Ptt : ScanDwellEnd(ptt1, ptt2)
  \/ VScanStart
  \/ \E k \in KeysOrNone, s \in Svals : VScanProbe(k, s)
  \/ \E k \in KeysOrNone, s \in Svals : VScanHold(k, s)
  \/ \E k \in KeysOrNone : VScanDwell(k)
  \/ \E ptt1, ptt2 \in Ptt : VScanDwellEnd(ptt1, ptt2)

Spec == Init /\ [][Next]_vars

\* The startup load on its own, over a wide range of EEPROM contents
InitLoad ==
  /\ PowerOn
  /\ LoadImage
  /\ tick_limit = 0 /\ key_limit = 0 /\ enc_limit = 0
  /\ NoRead
  /\ nkeys = 0 /\ nenc = 0
  /\ committed = <<>>

NextLoad ==
  \/ Startup
  \/ PowerCycle

SpecLoad == InitLoad /\ [][NextLoad]_vars

\* The knob model follows KnobEnc phase changes of the encoder and KnobTicks
\* timer ticks at the main loop
KnobEnc == 4
KnobTicks == 2

\* The encoder, the timer and the tuning of the main loop on their own
InitKnob ==
  /\ PowerOn
  /\ eeprom = Blank
  /\ tick_limit = KnobTicks /\ key_limit = 0 /\ enc_limit = KnobEnc
  /\ NoRead
  /\ nkeys = 0 /\ nenc = 0
  /\ committed = <<>>

NextKnob ==
  \/ Startup
  \/ \E gray \in 0 .. 3 : PCINT0(gray)
  \/ TIMER1_COMPA
  \/ \E ptt1, ptt2 \in Ptt : MainLoop(ptt1, ptt2)

SpecKnob == InitKnob /\ [][NextKnob]_vars

\* The tuning model follows a burst of TuneBurst contact bounces of the
\* encoder (the pins read 3 and 0 in turn, jumps of two phases) and then
\* TuneFree phase changes of any kind, with no timer tick in between
TuneBurst == 253
TuneFree == 3

\* Pin readings of the encoder in the tuning model
TuneGrays == IF nenc < TuneBurst THEN {0, 3} ELSE 0 .. 3

InitTune ==
  /\ PowerOn
  /\ eeprom = Blank
  /\ tick_limit = 0 /\ key_limit = 0 /\ enc_limit = TuneBurst + TuneFree
  /\ NoRead
  /\ nkeys = 0 /\ nenc = 0
  /\ committed = <<>>

NextTune ==
  \/ Startup
  \/ \E gray \in TuneGrays : PCINT0(gray)
  \/ \E ptt1, ptt2 \in Ptt : MainLoop(ptt1, ptt2)

SpecTune == InitTune /\ [][NextTune]_vars

\* An EEPROM content for the edge sweep: band 0, VFO B in use, both slots of
\* the band at the lower band edge
EdgeImage == Image(0, 1, 0, 2, 5, 100)

\* The accept model follows AcceptKeys key gestures at the main loop,
\* AcceptEnc phase changes of the encoder and AcceptTicks timer ticks
AcceptKeys == 2
AcceptEnc == 6
AcceptTicks == 30

\* Keys the operator presses in a menu of the accept model: next menu and
\* quit anywhere, OK on a VFO and on the edge sweep
AcceptNavKeys == {1, 3} \cup (IF menu = 1 \/ (menu = 3 /\ mpos = 0) THEN {2} ELSE {})

\* VFO selection, manual tuning and the edge sweep on their own
InitAccept ==
  /\ PowerOn
  /\ eeprom = EdgeImage
  /\ tick_limit = AcceptTicks /\ key_limit = AcceptKeys /\ enc_limit = AcceptEnc
  /\ NoRead
  /\ nkeys = 0 /\ nenc = 0
  /\ committed = <<>>

NextAccept ==
  \/ Startup
  \/ \E gray \in 0 .. 3 : PCINT0(gray)
  \/ DwellTick
  \/ \E ptt1, ptt2 \in Ptt : MainLoop(ptt1, ptt2)
  \/ MenuKey
  \/ NavTurn
  \/ \E k \in AcceptNavKeys : NavKey(k)
  \/ \E ptt1, ptt2 \in Ptt : VfoSelect(ptt1, ptt2)
  \/ \E ptt1, ptt2 \in Ptt : MenuQuit(ptt1, ptt2)
  \/ \E w \in 0 .. 1 : ScanStart(w)
  \/ \E k \in KeysOrNone, s \in Svals, ptt1, ptt2 \in Ptt : ScanProbe(k, s, ptt1, ptt2)
  \/ \E k \in KeysOrNone, s \in Svals : ScanHold(k, s)
  \/ \E k \in KeysOrNone : ScanDwell(k)
  \/ \E ptt1, ptt2 \in Ptt : ScanDwellEnd(ptt1, ptt2)

SpecAccept == InitAccept /\ [][NextAccept]_vars

\* An EEPROM content: band 0, VFO A in use, the slot of VFO A holding fq
SweepImage(fq) ==
  [a \in EeAddrs |->
     IF a >= OFF_FREQ_DATA /\ a < OFF_FREQ_DATA + 4
       THEN slot_bytes(fq)[a - OFF_FREQ_DATA + 1]
       ELSE Image(0, 0, 0, 0, 5, 100)[a]]

\* The sweep model follows SweepKeys key gestures at the main loop, SweepEnc
\* phase changes of the encoder and SweepTicks timer ticks
SweepKeys == 1
SweepEnc == 3
SweepTicks == 30

\* The edge sweep over a span of MaxSpan Hz, VFO A below VFO B and above it
InitSweep ==
  /\ PowerOn
  /\ eeprom \in {SweepImage(f_vfo_init[0][1] - MaxSpan),
                 SweepImage(f_vfo_init[0][1] + MaxSpan)}
  /\ tick_limit = SweepTicks /\ key_limit = SweepKeys /\ enc_limit = SweepEnc
  /\ NoRead
  /\ nkeys = 0 /\ nenc = 0
  /\ committed = <<>>

\* Keys the operator presses in a menu of the sweep model: next menu and quit
\* anywhere, OK on the edge sweep
SweepNavKeys == {1, 3} \cup (IF menu = 3 /\ mpos = 0 THEN {2} ELSE {})

\* The encoder is turned during the sweep only
SweepTurn(gray) == pc \in {"scan_probe", "scan_dwell"} /\ PCINT0(gray)

\* Signal levels of the sweep model: at or below the threshold
SweepLevels == {s \in Svals : s <= thresh}

NextSweep ==
  \/ Startup
  \/ \E gray \in 0 .. 3 : SweepTurn(gray)
  \/ DwellTick
  \/ \E ptt1, ptt2 \in Ptt : MainLoop(ptt1, ptt2)
  \/ MenuKey
  \/ \E k \in SweepNavKeys : NavKey(k)
  \/ \E ptt1, ptt2 \in Ptt : MenuQuit(ptt1, ptt2)
  \/ \E w \in 0 .. 1 : ScanStart(w)
  \/ \E k \in KeysOrNone, s \in SweepLevels, ptt1, ptt2 \in Ptt : ScanProbe(k, s, ptt1, ptt2)
  \/ \E k \in KeysOrNone : ScanDwell(k)
  \/ \E ptt1, ptt2 \in Ptt : ScanDwellEnd(ptt1, ptt2)

SpecSweep == InitSweep /\ [][NextSweep]_vars

(***************************************************************************)
(* The main context's load of tuningknob on the 8-bit CPU                   *)
(***************************************************************************)
\* The two bytes of the 16-bit int tuningknob
knob_lo == tuningknob % 256
knob_hi == (tuningknob % 65536) \div 256

\* The int made of low byte l and high byte h
int_of(l, h) == I16(l + 256 * h)

\* tune_frequency(), if(tuningknob > 2): the first of the two byte loads;
\* which byte comes first is the compiler's choice. Interrupts are enabled.
KnobLoadFirst(first) ==
  /\ pc = "idle" /\ rd_pc \in {"idle", "done"}
  /\ rd_pc' = first
  /\ rd_byte' = (IF first = "lo" THEN knob_lo ELSE knob_hi)
  /\ UNCHANGED <<pc, eeprom, radio, hw, txrx, runseconds10s, knob, runseconds10,
                 locals, tick_limit, key_limit, enc_limit, rd_val, held, nkeys,
                 nenc, committed>>

\* The second byte load completes the value the comparison sees
KnobLoadSecond ==
  /\ rd_pc \in {"lo", "hi"}
  /\ rd_val' = (IF rd_pc = "lo" THEN int_of(rd_byte, knob_hi)
                ELSE int_of(knob_lo, rd_byte))
  /\ rd_pc' = "done"
  /\ UNCHANGED <<pc, eeprom, radio, hw, txrx, runseconds10s, knob, runseconds10,
                 locals, tick_limit, key_limit, enc_limit, rd_byte, held, nkeys,
                 nenc, committed>>

\* The main loop runs between loads, not within one
RaceMainLoop(ptt1, ptt2) == rd_pc \in {"idle", "done"} /\ MainLoop(ptt1, ptt2)

\* The race model follows RaceEnc phase changes of the encoder and RaceTicks
\* timer ticks
RaceEnc == 4
RaceTicks == 2

\* The encoder and timer interrupts against the main loop's load of tuningknob
InitRace ==
  /\ PowerOn
  /\ eeprom = Blank
  /\ tick_limit = RaceTicks
  /\ key_limit = 0
  /\ enc_limit = RaceEnc
  /\ rd_pc = "idle" /\ rd_byte = 0 /\ rd_val = 0 /\ held = {tuningknob}
  /\ nkeys = 0 /\ nenc = 0
  /\ committed = <<>>

NextRace ==
  \/ Startup
  \/ \E gray \in 0 .. 3 : PCINT0(gray)
  \/ TIMER1_COMPA
  \/ \E ptt1, ptt2 \in Ptt : RaceMainLoop(ptt1, ptt2)
  \/ \E first \in {"lo", "hi"} : KnobLoadFirst(first)
  \/ KnobLoadSecond

SpecRace == InitRace /\ [][NextRace]_vars

(***************************************************************************)
(* The hand-off of tuningknob from the encoder interrupt to tune_frequency  *)
(***************************************************************************)
\* tune_frequency(), if(tuningknob > 2) / if(tuningknob < -2): the test finds
\* the knob beyond the deadband; rd_val keeps the value it saw. The addition
\* and the clear follow in later instructions, interrupts are enabled.
KnobTest ==
  /\ pc = "idle" /\ rd_pc = "idle"
  /\ tuningknob > 2 \/ tuningknob < -2
  /\ rd_val' = tuningknob
  /\ rd_pc' = "clear"
  /\ UNCHANGED <<pc, eeprom, radio, hw, txrx, runseconds10s, knob, runseconds10,
                 locals, tick_limit, key_limit, enc_limit, rd_byte, held, nkeys,
                 nenc, committed>>

\* f += calc_tuningfactor() or f -= calc_tuningfactor(), on the side the test
\* took
knob_tuned(fq) == IF rd_val > 2 THEN fq + calc_tuningfactor ELSE fq - calc_tuningfactor

\* tuningknob = 0; return f; and the rest of the main loop iteration
KnobClear(ptt1, ptt2) ==
  /\ pc = "idle" /\ rd_pc = "clear"
  /\ rd_pc' = "idle"
  /\ tuningknob' = 0
  /\ f_vfo' = (IF knob_tuned(f_vfo[cur_band][cur_vfo]) # 0
                 THEN [f_vfo EXCEPT ![cur_band][cur_vfo] = knob_tuned(f_vfo[cur_band][cur_vfo])]
                 ELSE f_vfo)
  /\ UNCHANGED <<cur_band, cur_vfo, sideband, f_lo, thresh, tx_preset, split, relay>>
  /\ txrx_check(IF knob_tuned(f_vfo[cur_band][cur_vfo]) # 0
                  THEN knob_tuned(f_vfo[cur_band][cur_vfo]) + f_lo[sideband]
                  ELSE dds, ptt1, ptt2)
  /\ UNCHANGED <<pc, eeprom, lo, clk12, dac, laststate, tuningcount, runseconds10,
                 locals, tick_limit, key_limit, enc_limit, rd_byte, rd_val, held,
                 nkeys, nenc, committed>>

\* An iteration of the main loop whose test finds the knob within the deadband
KnobRest(ptt1, ptt2) ==
  /\ rd_pc = "idle"
  /\ tuningknob <= 2 /\ tuningknob >= -2
  /\ MainLoop(ptt1, ptt2)

\* The hand-off model follows HandoffEnc phase changes of the encoder and
\* HandoffTicks timer ticks
HandoffEnc == 5
HandoffTicks == 2

\* The encoder and timer interrupts against the test and the clear of
\* tune_frequency
InitHandoff ==
  /\ PowerOn
  /\ eeprom = Blank
  /\ tick_limit = HandoffTicks
  /\ key_limit = 0
  /\ enc_limit = HandoffEnc
  /\ rd_pc = "idle" /\ rd_byte = 0 /\ rd_val = 0 /\ held = {tuningknob}
  /\ nkeys = 0 /\ nenc = 0
  /\ committed = <<>>

NextHandoff ==
  \/ Startup
  \/ \E gray \in 0 .. 3 : PCINT0(gray)
  \/ TIMER1_COMPA
  \/ KnobTest
  \/ \E ptt1, ptt2 \in Ptt : KnobClear(ptt1, ptt2)
  \/ \E ptt1, ptt2 \in Ptt : KnobRest(ptt1, ptt2)

SpecHandoff == InitHandoff /\ [][NextHandoff]_vars

\* The preset model follows PresetKeys key gestures at the main loop,
\* PresetEnc phase changes of the encoder and PresetTicks timer ticks
PresetKeys == 2
PresetEnc == 3
PresetTicks == 1

\* Contents with every TX preset word one step inside an end of 0 .. 4095
PresetImages == {Image(0, 0, 0, 0, 5, 1), Image(0, 0, 0, 0, 5, 4094)}

\* The TX preset adjustment entered with the key of the main loop
InitPreset ==
  /\ PowerOn
  /\ eeprom \in PresetImages
  /\ tick_limit = PresetTicks /\ key_limit = PresetKeys /\ enc_limit = PresetEnc
  /\ NoRead
  /\ nkeys = 0 /\ nenc = 0
  /\ committed = <<>>

NextPreset ==
  \/ Startup
  \/ \E gray \in 0 .. 3 : PCINT0(gray)
  \/ TIMER1_COMPA
  \/ \E ptt1, ptt2 \in Ptt : MainLoop(ptt1, ptt2)
  \/ PresetKey
  \/ PresetTurn
  \/ \E k \in Keys, ptt1, ptt2 \in Ptt : PresetEnd(k, ptt1, ptt2)

SpecPreset == InitPreset /\ [][NextPreset]_vars

\* The threshold model follows ThreshKeys key gestures at the main loop and
\* ThreshEnc phase changes of the encoder
ThreshKeys == 1
ThreshEnc == 9

\* Contents with the threshold byte at either end of 0 .. 12
ThreshImages == {Image(0, 0, 0, 0, 0, 100), Image(0, 0, 0, 0, 12, 100)}

\* In the menu only the threshold item of the scan menu is entered
ThreshNavKeys == {1, 3} \cup (IF menu = 3 /\ mpos = 2 THEN {2} ELSE {})

\* The encoder is turned in the scan menu and in set_scan_threshold()
ThreshTurn(gray) ==
  /\ pc \in {"menu", "thresh"}
  /\ pc = "menu" => menu = 3
  /\ PCINT0(gray)

\* set_scan_threshold(), chosen from the menu with the encoder
InitThresh ==
  /\ PowerOn
  /\ eeprom \in ThreshImages
  /\ tick_limit = 0 /\ key_limit = ThreshKeys /\ enc_limit = ThreshEnc
  /\ NoRead
  /\ nkeys = 0 /\ nenc = 0
  /\ committed = <<>>

NextThresh ==
  \/ Startup
  \/ \E gray \in 0 .. 3 : ThreshTurn(gray)
  \/ MenuKey
  \/ NavTurn
  \/ \E k \in ThreshNavKeys : NavKey(k)
  \/ \E ptt1, ptt2 \in Ptt : MenuQuit(ptt1, ptt2)
  \/ ThreshStart
  \/ \E k \in KeysOrNone, ptt1, ptt2 \in Ptt : ThreshPoll(k, ptt1, ptt2)

SpecThresh == InitThresh /\ [][NextThresh]_vars

\* The calibration model follows LoKeys key gestures at the main loop and
\* LoEnc phase changes of the encoder
LoKeys == 1
LoEnc == 6

\* In the menu only the two LO items of the last menu are entered
LoNavKeys == {1, 3} \cup (IF menu = 5 /\ mpos < 2 THEN {2} ELSE {})

\* The encoder is turned in the last menu and in set_lo_frequencies()
LoTurn(gray) ==
  /\ pc \in {"menu", "lo_set"}
  /\ pc = "menu" => menu = 5
  /\ PCINT0(gray)

\* set_lo_frequencies(), entered once from the menu after power on
InitLoSet ==
  /\ PowerOn
  /\ eeprom = Blank
  /\ tick_limit = 0 /\ key_limit = LoKeys /\ enc_limit = LoEnc
  /\ NoRead
  /\ nkeys = 0 /\ nenc = 0
  /\ committed = <<>>

NextLoSet ==
  \/ Startup
  \/ \E gray \in 0 .. 3 : LoTurn(gray)
  \/ MenuKey
  \/ NavTurn
  \/ \E k \in LoNavKeys : NavKey(k)
  \/ \E ptt1, ptt2 \in Ptt : MenuQuit(ptt1, ptt2)
  \/ LoSetStart
  \/ \E k \in KeysOrNone, ptt1, ptt2 \in Ptt : LoSetPoll(k, ptt1, ptt2)

SpecLoSet == InitLoSet /\ [][NextLoSet]_vars

(***************************************************************************)
(* The store functions applied to chosen arguments                          *)
(***************************************************************************)
\* The schema model follows SchemaStores calls of store functions
SchemaStores == 2

\* Frequencies the stores are called with: four different bytes, and the
\* largest 28-bit value
SchemaFreqs == {16909060, VFOBIT - 1}

\* Contents the stores are applied to
SchemaImages == {Image(0, 0, 0, 5, 5, 100)}

\* A store function has run and left the EEPROM as e
SchemaStore(e) ==
  /\ pc = "idle"
  /\ nkeys < key_limit
  /\ nkeys' = nkeys + 1
  /\ eeprom' = e
  /\ UNCHANGED <<pc, radio, hw, txrx, runseconds10s, knob, runseconds10, locals,
                 limits, nenc, committed>>

StoreFrequency(v, b, fq) == SchemaStore(store_frequency(eeprom, v, b, fq))
StoreVfo(b, v) == SchemaStore(store_vfo(eeprom, b, v))
StoreTxPreset(value, b) == SchemaStore(store_tx_preset(eeprom, value, b))
StoreThresh(t) == SchemaStore([eeprom EXCEPT ![OFF_THRESH] = U8(t)])
StoreCurrentOperation(b, v, s, fq) ==
  SchemaStore(store_current_operation(eeprom, b, v, s, fq))

InitSchema ==
  /\ PowerOn
  /\ eeprom \in SchemaImages
  /\ tick_limit = 0 /\ key_limit = SchemaStores /\ enc_limit = 0
  /\ NoRead
  /\ nkeys = 0 /\ nenc = 0
  /\ committed = <<>>

NextSchema ==
  \/ Startup
  \/ \E v \in Vfos, b \in Bands, fq \in SchemaFreqs : StoreFrequency(v, b, fq)
  \/ \E b \in Bands, v \in Vfos : StoreVfo(b, v)
  \/ \E value \in {0, 4095}, b \in Bands : StoreTxPreset(value, b)
  \/ \E t \in {0, 12} : StoreThresh(t)
  \/ \E b \in Bands, v \in Vfos : StoreCurrentOperation(b, v, 1, 16909060)

SpecSchema == InitSchema /\ [][NextSchema]_vars

\* The dwell model follows DwellKeys key gestures at the main loop and
\* DwellTicks timer ticks
DwellKeys == 1
DwellTicks == 32

\* The timer ticks while a sweep holds or waits
HoldTick == pc \in {"scan_hold", "scan_dwell"} /\ TIMER1_COMPA

\* The edge sweep with levels above and below the threshold, the encoder at
\* rest
InitDwell ==
  /\ PowerOn
  /\ eeprom = SweepImage(f_vfo_init[0][1] - MaxSpan)
  /\ tick_limit = DwellTicks /\ key_limit = DwellKeys /\ enc_limit = 0
  /\ NoRead
  /\ nkeys = 0 /\ nenc = 0
  /\ committed = <<>>

NextDwell ==
  \/ Startup
  \/ HoldTick
  \/ \E ptt1, ptt2 \in Ptt : MainLoop(ptt1, ptt2)
  \/ MenuKey
  \/ \E k \in SweepNavKeys : NavKey(k)
  \/ \E ptt1, ptt2 \in Ptt : MenuQuit(ptt1, ptt2)
  \/ \E w \in 0 .. 1 : ScanStart(w)
  \/ \E k \in KeysOrNone, s \in Svals, ptt1, ptt2 \in Ptt : ScanProbe(k, s, ptt1, ptt2)
  \/ \E k \in KeysOrNone, s \in Svals : ScanHold(k, s)
  \/ \E k \in KeysOrNone : ScanDwell(k)
  \/ \E ptt1, ptt2 \in Ptt : ScanDwellEnd(ptt1, ptt2)

SpecDwell == InitDwell /\ [][NextDwell]_vars

\* The steering model follows SteerKeys key gestures at the main loop,
\* SteerEnc phase changes of the encoder and SteerTicks timer ticks
SteerKeys == 1
SteerEnc == 3
SteerTicks == 30

\* Pin readings one phase ahead of or behind the last one: single steps
SteerGrays == {g \in 0 .. 3 : gray_to_state(g) \in {(laststate + 1) % 4, (laststate + 3) % 4}}

\* The encoder is turned during a scan only
ScanTurn(gray) ==
  /\ pc \in {"scan_probe", "scan_hold", "scan_dwell",
             "vscan_probe", "vscan_hold", "vscan_dwell"}
  /\ PCINT0(gray)

\* The edge sweep steered by the encoder, levels above and below the threshold
InitSteer ==
  /\ PowerOn
  /\ eeprom = SweepImage(f_vfo_init[0][1] - MaxSpan)
  /\ tick_limit = SteerTicks /\ key_limit = SteerKeys /\ enc_limit = SteerEnc
  /\ NoRead
  /\ nkeys = 0 /\ nenc = 0
  /\ committed = <<>>

NextSteer ==
  \/ Startup
  \/ \E gray \in SteerGrays : ScanTurn(gray)
  \/ DwellTick
  \/ \E ptt1, ptt2 \in Ptt : MainLoop(ptt1, ptt2)
  \/ MenuKey
  \/ \E k \in SweepNavKeys : NavKey(k)
  \/ \E ptt1, ptt2 \in Ptt : MenuQuit(ptt1, ptt2)
  \/ \E w \in 0 .. 1 : ScanStart(w)
  \/ \E k \in 0 .. 3, s \in Svals, ptt1, ptt2 \in Ptt : ScanProbe(k, s, ptt1, ptt2)
  \/ \E k \in 0 .. 3, s \in Svals : ScanHold(k, s)
  \/ \E k \in 0 .. 3 : ScanDwell(k)
  \/ \E ptt1, ptt2 \in Ptt : ScanDwellEnd(ptt1, ptt2)

SpecSteer == InitSteer /\ [][NextSteer]_vars

\* The wraparound model starts its sweep up to WrapLead ticks before the tick
\* counter reaches MaxLong and follows the counter WrapPast ticks beyond MinLong
WrapLead == 31
WrapPast == 2
WrapKeys == 1

\* The menu is entered after the long idle time
WrapMenuKey == runseconds10 # 0 /\ MenuKey

\* The edge sweep at tick counts around the wraparound of the counter
InitWrap ==
  /\ PowerOn
  /\ eeprom = SweepImage(f_vfo_init[0][1] - MaxSpan)
  /\ tick_limit = MinLong + WrapPast
  /\ key_limit = WrapKeys
  /\ enc_limit = 0
  /\ NoRead
  /\ nkeys = 0 /\ nenc = 0
  /\ committed = <<>>

NextWrap ==
  \/ Startup
  \/ \E d \in 0 .. WrapLead : LongIdle(MaxLong - d)
  \/ DwellTick
  \/ \E ptt1, ptt2 \in Ptt : MainLoop(ptt1, ptt2)
  \/ WrapMenuKey
  \/ \E k \in SweepNavKeys : NavKey(k)
  \/ \E ptt1, ptt2 \in Ptt : MenuQuit(ptt1, ptt2)
  \/ \E w \in 0 .. 1 : ScanStart(w)
  \/ \E k \in KeysOrNone, s \in Svals, ptt1, ptt2 \in Ptt : ScanProbe(k, s, ptt1, ptt2)
  \/ \E k \in KeysOrNone, s \in Svals : ScanHold(k, s)
  \/ \E k \in KeysOrNone : ScanDwell(k)
  \/ \E ptt1, ptt2 \in Ptt : ScanDwellEnd(ptt1, ptt2)

SpecWrap == InitWrap /\ [][NextWrap]_vars

\* The abort model follows AbortKeys key gestures at the main loop, AbortEnc
\* phase changes of the encoder and AbortTicks timer ticks
AbortKeys == 1
AbortEnc == 6
AbortTicks == 30

\* In the menu only the scan menu is entered
AbortNavKeys == {1, 3} \cup (IF menu = 3 THEN {2} ELSE {})

\* The encoder is turned in the scan menu and during a scan
AbortTurn(gray) ==
  /\ pc \in {"menu", "scan_probe", "scan_hold", "scan_dwell",
             "vscan_probe", "vscan_hold", "vscan_dwell"}
  /\ pc = "menu" => menu = 3
  /\ PCINT0(gray)

\* Both scans, chosen from the menu with the encoder and steered by it
InitAbort ==
  /\ PowerOn
  /\ eeprom = SweepImage(f_vfo_init[0][1] - SCANSTEP)
  /\ tick_limit = AbortTicks /\ key_limit = AbortKeys /\ enc_limit = AbortEnc
  /\ NoRead
  /\ nkeys = 0 /\ nenc = 0
  /\ committed = <<>>

NextAbort ==
  \/ Startup
  \/ \E gray \in SteerGrays : AbortTurn(gray)
  \/ DwellTick
  \/ MenuKey
  \/ NavTurn
  \/ \E k \in AbortNavKeys : NavKey(k)
  \/ \E ptt1, ptt2 \in Ptt : MenuQuit(ptt1, ptt2)
  \/ \E w \in 0 .. 1 : ScanStart(w)
  \/ \E k \in {0, 2, 3}, s \in Svals, ptt1, ptt2 \in Ptt : ScanProbe(k, s, ptt1, ptt2)
  \/ \E k \in {0, 2, 3}, s \in Svals : ScanHold(k, s)
  \/ \E k \in {0, 2, 3} : ScanDwell(k)
  \/ \E ptt1, ptt2 \in Ptt : ScanDwellEnd(ptt1, ptt2)
  \/ VScanStart
  \/ \E k \in {0, 2, 3}, s \in Svals : VScanProbe(k, s)
  \/ \E k \in {0, 2, 3}, s \in Svals : VScanHold(k, s)
  \/ \E k \in {0, 2, 3} : VScanDwell(k)
  \/ \E ptt1, ptt2 \in Ptt : VScanDwellEnd(ptt1, ptt2)

SpecAbort == InitAbort /\ [][NextAbort]_vars

(***************************************************************************)
(* Properties                                                              *)
(***************************************************************************)
\* The 32-bit value the four bytes of the slot of band b, VFO v hold lies
\* within the edges of band b (a value of 2^31 or more lies above every band)
StoredInEdges(ee, v, b) ==
  LET a == OFF_FREQ_DATA + 8 * b + 4 * v
  IN /\ ee[a] < 128
     /\ ((ee[a] * 256 + ee[a + 1]) * 256 + ee[a + 2]) * 256 + ee[a + 3] >= band_f0[b]
     /\ ((ee[a] * 256 + ee[a + 1]) * 256 + ee[a + 2]) * 256 + ee[a + 3] <= band_f1[b]

\* That value, for a slot whose top byte is below 128
StoredValue(ee, v, b) ==
  LET a == OFF_FREQ_DATA + 8 * b + 4 * v
  IN ((ee[a] * 256 + ee[a + 1]) * 256 + ee[a + 2]) * 256 + ee[a + 3]

\* The frequency a reload of the slot has to leave: the stored value when it
\* lies within the band edges, the band's centre frequency otherwise
Reloaded(ee, v, b) == IF StoredInEdges(ee, v, b) THEN StoredValue(ee, v, b) ELSE c_freq[b]

\* C1: whatever the EEPROM holds, startup ends at the main loop with the band
\* in 0..4, the VFO in {0, 1}, the sideband 0 or 1, the live frequency within
\* the band edges, the threshold in 0..12 and the five TX presets in 0..4095
C1_StartupUsable ==
  pc = "idle" =>
    /\ cur_band \in 0 .. 4
    /\ cur_vfo \in {0, 1}
    /\ sideband \in {0, 1}
    /\ f_vfo[cur_band][cur_vfo] >= band_f0[cur_band]
    /\ f_vfo[cur_band][cur_vfo] <= band_f1[cur_band]
    /\ thresh \in 0 .. 12
    /\ \A b \in 0 .. 4 : tx_preset[b] \in 0 .. 4095

\* Startup has run on an EEPROM whose band byte, VFO byte, frequency slot,
\* threshold byte and TX preset words are all out of their domains
C1_Witness ==
  /\ pc = "idle"
  /\ eeprom[OFF_LAST_BAND_USED] > 4
  /\ eeprom[OFF_VFO_DATA + cur_band] > 1
  /\ ~StoredInEdges(eeprom, cur_vfo, cur_band)
  /\ eeprom[OFF_THRESH] > 12
  /\ eeprom[OFF_TX_PRESET] * 256 + eeprom[OFF_TX_PRESET + 1] > 4095

\* C2: at idle in receive the DDS was last programmed with the live frequency
\* of the current VFO plus the LO frequency of the current sideband
C2_DdsAtIdle ==
  (pc = "idle" /\ txrx = 0) => dds = f_vfo[cur_band][cur_vfo] + f_lo[sideband]

\* C3: at idle the LO output was last programmed with the LO frequency of the
\* current sideband
C3_LoAtIdle == pc = "idle" => lo = f_lo[sideband]

\* C4: a band change, from the menu or by the next-band key, leaves the
\* sideband at the standard sideband of the new band
C4_BandChangeSideband ==
  [][((\E ptt1, ptt2 \in BOOLEAN : BandSelect(ptt1, ptt2))
        \/ (\E ptt1, ptt2 \in BOOLEAN : NextBandKey(ptt1, ptt2)))
       => sideband' = std_sideband[cur_band']]_vars

\* C5: a band change leaves, in the current VFO slot of the new band, the stored
\* frequency of that slot when it lies within the band edges and the band's
\* centre frequency otherwise
C5_BandChangeFrequency ==
  [][((\E ptt1, ptt2 \in BOOLEAN : BandSelect(ptt1, ptt2))
        \/ (\E ptt1, ptt2 \in BOOLEAN : NextBandKey(ptt1, ptt2)))
       => f_vfo'[cur_band'][cur_vfo'] = Reloaded(eeprom, cur_vfo', cur_band')]_vars

\* Band 3 has been entered on VFO A with nothing valid stored for it, from a
\* store whose band byte selected another band at power-on
C5_Witness ==
  /\ pc = "idle"
  /\ nkeys > 0
  /\ cur_band = 3 /\ cur_vfo = 0
  /\ ~StoredInEdges(eeprom, 0, 3)
  /\ f_vfo[3][0] = c_freq[3]
  /\ relay = 3
  /\ eeprom[OFF_VFO_DATA + 3] # 1

\* C6: startup uses the stored band byte when it is in 0..4 and band 2
\* otherwise, and the stored VFO byte of that band when it is 0 or 1 and VFO A
\* otherwise
C6_StartupBandVfo ==
  pc = "idle" =>
    /\ cur_band = (IF eeprom[OFF_LAST_BAND_USED] \in 0 .. 4
                     THEN eeprom[OFF_LAST_BAND_USED] ELSE 2)
    /\ cur_vfo = (IF eeprom[OFF_VFO_DATA + cur_band] \in {0, 1}
                    THEN eeprom[OFF_VFO_DATA + cur_band] ELSE 0)

\* Startup has run on a band byte of 9 and a VFO byte of 2
C6_Witness ==
  /\ pc = "idle"
  /\ eeprom[OFF_LAST_BAND_USED] = 9 /\ cur_band = 2
  /\ eeprom[OFF_VFO_DATA + 2] = 2 /\ cur_vfo = 0

\* C7: at startup the stored 32-bit frequency of the selected slot becomes the
\* live frequency exactly when it lies within the band edges, the centre
\* frequency of the band otherwise; every centre frequency lies within the
\* edges of its band
C7_StartupFrequency ==
  /\ \A b \in Bands : band_f0[b] <= c_freq[b] /\ c_freq[b] <= band_f1[b]
  /\ pc = "idle" =>
       /\ f_vfo[cur_band][cur_vfo] = Reloaded(eeprom, cur_vfo, cur_band)
       /\ (f_vfo[cur_band][cur_vfo] = c_freq[cur_band]
             \/ StoredInEdges(eeprom, cur_vfo, cur_band))

\* Startup has taken over a stored frequency that is the lower edge of the band
C7_Witness ==
  /\ pc = "idle"
  /\ StoredInEdges(eeprom, cur_vfo, cur_band)
  /\ f_vfo[cur_band][cur_vfo] = band_f0[cur_band]
  /\ f_vfo[cur_band][cur_vfo] # c_freq[cur_band]

\* C8: startup takes the stored sideband byte as the operating sideband when
\* it is 0 or 1 and the standard sideband of the band otherwise
C8_StartupSideband ==
  pc = "idle" =>
    sideband = (IF eeprom[OFF_LAST_SIDEBAND_USED] \in {0, 1}
                  THEN eeprom[OFF_LAST_SIDEBAND_USED]
                  ELSE std_sideband[cur_band])

\* C9: a startup that follows a commit of (band, vfo, sideband, f), f within
\* the band edges, with no other EEPROM write in between, selects that band
\* and VFO and makes f the live frequency of that slot
C9_CommitRoundTrip ==
  [][(Startup /\ committed # <<>>
        /\ committed[1] \in 0 .. 4 /\ committed[2] \in {0, 1}
        /\ committed[4] >= band_f0[committed[1]]
        /\ committed[4] <= band_f1[committed[1]])
       => /\ cur_band' = committed[1]
          /\ cur_vfo' = committed[2]
          /\ f_vfo'[committed[1]][committed[2]] = committed[4]]_vars

\* All encoder steps were spent before the RAM was last cleared, and the
\* startup after it has restored a committed frequency that was tuned: it is
\* neither the power-on value, nor the centre frequency, nor an edge of the band
C9_Witness ==
  /\ pc = "idle"
  /\ committed # <<>>
  /\ nenc = enc_limit /\ laststate = 0 /\ tuningknob = 0 /\ tuningcount = 0
  /\ cur_band = committed[1] /\ cur_vfo = committed[2]
  /\ f_vfo[cur_band][cur_vfo] = committed[4]
  /\ committed[4] # c_freq[cur_band]
  /\ committed[4] # f_vfo_init[cur_band][cur_vfo]
  /\ committed[4] > band_f0[cur_band] /\ committed[4] < band_f1[cur_band]

\* C10: a VFO change to v selects v, reloads the slot of the current band and
\* v from the store with the centre-frequency fallback, programs the DDS with
\* it in receive, and leaves the band, the sideband, the LO programming and
\* the other VFO slot as they were
C10_VfoChange ==
  [][(\E ptt1, ptt2 \in BOOLEAN : VfoSelect(ptt1, ptt2))
       => /\ cur_vfo' = m - 10
          /\ f_vfo'[cur_band][cur_vfo'] = Reloaded(eeprom, cur_vfo', cur_band)
          /\ (txrx' = 0 => dds' = f_vfo'[cur_band][cur_vfo'] + f_lo[sideband])
          /\ cur_band' = cur_band
          /\ sideband' = sideband
          /\ relay' = relay
          /\ lo' = lo
          /\ f_lo' = f_lo
          /\ f_vfo'[cur_band][1 - cur_vfo'] = f_vfo[cur_band][1 - cur_vfo']
          /\ \A b \in Bands \ {cur_band} : f_vfo'[b] = f_vfo[b]]_vars

\* VFO B has been selected from the menu in this power session, on a band
\* whose stored VFO byte is not B and whose VFO B slot holds nothing valid
C10_Witness ==
  /\ pc = "idle"
  /\ cur_vfo = 1
  /\ eeprom[OFF_LAST_VFO_USED] = 1
  /\ eeprom[OFF_VFO_DATA + cur_band] # 1
  /\ ~StoredInEdges(eeprom, 1, cur_band)
  /\ f_vfo[cur_band][1] = c_freq[cur_band]
  /\ dds = f_vfo[cur_band][1] + f_lo[sideband]

\* C11: a sideband change to s sets sideband to s, programs the LO with
\* f_lo[s] and, in receive, the DDS with the live frequency plus f_lo[s], and
\* leaves the band, the VFO selection and every VFO frequency as they were
C11_SidebandChange ==
  [][(\E ptt1, ptt2 \in BOOLEAN : SidebandSelect(ptt1, ptt2))
       => /\ sideband' = m - 20
          /\ lo' = f_lo[m - 20]
          /\ (txrx' = 0 => dds' = f_vfo[cur_band][cur_vfo] + f_lo[m - 20])
          /\ cur_band' = cur_band
          /\ cur_vfo' = cur_vfo
          /\ f_vfo' = f_vfo
          /\ f_lo' = f_lo]_vars

\* After a single key gesture the sideband is the one that is not the
\* standard sideband of the band, and LO and DDS are programmed for it
C11_Witness ==
  /\ pc = "idle" /\ txrx = 0
  /\ nkeys = 1
  /\ sideband # std_sideband[cur_band]
  /\ lo = f_lo[sideband]
  /\ dds = f_vfo[cur_band][cur_vfo] + f_lo[sideband]

\* C12: a tuning event consumed by the main loop sets the live frequency to
\* the old one plus (knob above the deadband) or minus (below) the step, with
\* no clamp to the band edges, and leaves the band, the VFO selection, the
\* sideband and every other VFO slot as they were
C12_TuningUnclamped ==
  [][((\E ptt1, ptt2 \in BOOLEAN : MainLoop(ptt1, ptt2))
        /\ (tuningknob > 2 \/ tuningknob < -2))
       => /\ f_vfo'[cur_band][cur_vfo] =
               (IF tuningknob > 2
                  THEN f_vfo[cur_band][cur_vfo] + calc_tuningfactor
                  ELSE f_vfo[cur_band][cur_vfo] - calc_tuningfactor)
          /\ cur_band' = cur_band
          /\ cur_vfo' = cur_vfo
          /\ sideband' = sideband
          /\ f_vfo'[cur_band][1 - cur_vfo] = f_vfo[cur_band][1 - cur_vfo]
          /\ \A b \in Bands \ {cur_band} : f_vfo'[b] = f_vfo[b]]_vars

\* The main loop has tuned the live frequency above the upper band edge
C12_Witness ==
  /\ pc = "idle"
  /\ tuningknob = 0
  /\ f_vfo[cur_band][cur_vfo] > band_f1[cur_band]
  /\ dds = f_vfo[cur_band][cur_vfo] + f_lo[sideband]

\* An edge sweep returns to main() on the accept key (key 2), from the end of
\* a pass of the for loop or from the end of the dwell loop
ScanAccepted ==
  /\ pc' = "idle"
  /\ \/ \E s \in Svals, ptt1, ptt2 \in BOOLEAN : ScanProbe(2, s, ptt1, ptt2)
     \/ key = 2 /\ \E ptt1, ptt2 \in BOOLEAN : ScanDwellEnd(ptt1, ptt2)

\* C13 as claimed: a probe frequency accepted in an edge sweep becomes the
\* live frequency of the current VFO whether or not it lies within the edges
\* of the current band
C13_AcceptedProbeLive ==
  [][ScanAccepted => f_vfo'[cur_band][cur_vfo] = tuned(fx)]_vars

\* C13 amended: a probe frequency accepted in an edge sweep becomes the live
\* frequency of the current VFO exactly when it lies within the edges of the
\* current band (edges included); otherwise the live frequency stays what it
\* was. Band, VFO and the other VFO's frequency are left alone.
C13_AcceptedProbeChecked ==
  [][ScanAccepted
       => /\ f_vfo'[cur_band][cur_vfo]
               = (IF band_f0[cur_band] <= tuned(fx) /\ tuned(fx) <= band_f1[cur_band]
                    THEN tuned(fx) ELSE f_vfo[cur_band][cur_vfo])
          /\ cur_band' = cur_band /\ cur_vfo' = cur_vfo
          /\ f_vfo'[cur_band][1 - cur_vfo] = f_vfo[cur_band][1 - cur_vfo]]_vars

\* The dwell loop of an edge sweep is about to end on the accept key with a
\* probe frequency below the lower band edge that is not the live frequency
C13_Witness ==
  /\ pc = "scan_dwell" /\ key = 2
  /\ ~(runsecs10thresh + DWELL > runseconds10)
  /\ tuned(fx) < band_f0[cur_band]
  /\ tuned(fx) # f_vfo[cur_band][cur_vfo]

\* C14: for each of the 16 pairs of previous and current phase the encoder
\* interrupt adds -1, 0 or +1 to the step accumulator: +1 for a single step in
\* one direction, -1 for a single step in the other, 0 for an unchanged phase
\* and for a jump of two phases
C14_EncoderDecode ==
  [][\A gray \in 0 .. 3 :
       PCINT0(gray) =>
         /\ tuningknob' - tuningknob \in {-1, 0, 1}
         /\ (gray_to_state(gray) - laststate) % 4 = 1 => tuningknob' - tuningknob = 1
         /\ (gray_to_state(gray) - laststate) % 4 = 3 => tuningknob' - tuningknob = -1
         /\ (gray_to_state(gray) - laststate) % 4 = 2 => tuningknob' - tuningknob = 0
         /\ (gray_to_state(gray) - laststate) % 4 = 0 => tuningknob' - tuningknob = 0]_vars

\* Two phase changes have led from phase 0 to phase 3, one of them a single
\* step and the other a jump of two phases
C14_Witness ==
  /\ pc = "idle"
  /\ nenc = 2 /\ tuningcount = 2
  /\ laststate = 3
  /\ tuningknob = 1

\* C15: an encoder interrupt whose phase change is not a single step leaves
\* the step accumulator and the rotation counter as they were
C15_JumpNoOp ==
  [][\A gray \in 0 .. 3 :
       (PCINT0(gray) /\ (gray_to_state(gray) - laststate) % 4 \notin {1, 3})
         => (tuningknob' = tuningknob /\ tuningcount' = tuningcount)]_vars

\* C16: with the accumulator within -2..2 the tuning of the main loop leaves
\* the accumulator and the frequency as they are; with the accumulator above
\* 2 (below -2) it adds (subtracts) count * (count >> 1) for the current
\* rotation count and clears the accumulator
C16_TuneFrequency ==
  [][(\E ptt1, ptt2 \in BOOLEAN : MainLoop(ptt1, ptt2))
       => /\ (tuningknob >= -2 /\ tuningknob <= 2)
               => (tuningknob' = tuningknob /\ f_vfo' = f_vfo)
          /\ tuningknob > 2
               => /\ tuningknob' = 0
                  /\ f_vfo'[cur_band][cur_vfo] =
                       f_vfo[cur_band][cur_vfo] + tuningcount * (tuningcount \div 2)
          /\ tuningknob < -2
               => /\ tuningknob' = 0
                  /\ f_vfo'[cur_band][cur_vfo] =
                       f_vfo[cur_band][cur_vfo] - tuningcount * (tuningcount \div 2)]_vars

\* C17: every timer tick and every tuning event the main loop consumes
\* resets the rotation counter to 0
C17_CounterReset ==
  [][(TIMER1_COMPA
        \/ ((\E ptt1, ptt2 \in BOOLEAN : MainLoop(ptt1, ptt2))
              /\ (tuningknob > 2 \/ tuningknob < -2)))
       => tuningcount' = 0]_vars

\* C18: every tuning event the main loop consumes moves the live frequency by
\* at least 1 Hz in the direction of the rotation
C18_StepNonZero ==
  [][(\E ptt1, ptt2 \in BOOLEAN : MainLoop(ptt1, ptt2))
       => /\ tuningknob > 2 =>
               f_vfo'[cur_band][cur_vfo] >= f_vfo[cur_band][cur_vfo] + 1
          /\ tuningknob < -2 =>
               f_vfo'[cur_band][cur_vfo] <= f_vfo[cur_band][cur_vfo] - 1]_vars

\* C19: the main context never observes a torn value of tuningknob: the value
\* a finished load delivers is one the variable has held
C19_NoTornRead == rd_pc = "done" => rd_val \in held

\* The lower and the higher of the current band's two VFO frequencies
VfoLower == IF f_vfo[cur_band][0] < f_vfo[cur_band][1]
              THEN f_vfo[cur_band][0] ELSE f_vfo[cur_band][1]
VfoHigher == IF f_vfo[cur_band][0] < f_vfo[cur_band][1]
               THEN f_vfo[cur_band][1] ELSE f_vfo[cur_band][0]

\* A pass of the edge sweep's for loop ends and the next one begins, from the
\* end of the pass itself or from the end of the dwell loop
SweepPass ==
  /\ pc' = "scan_probe"
  /\ \/ \E k \in KeysOrNone, s \in Svals, ptt1, ptt2 \in BOOLEAN : ScanProbe(k, s, ptt1, ptt2)
     \/ \E ptt1, ptt2 \in BOOLEAN : ScanDwellEnd(ptt1, ptt2)

\* C20: the edge sweep starts its probe at the lower of the current band's
\* two VFO frequencies whichever VFO holds it, with f[0] <= f[1] the lower
\* and the higher one; a pass that ends without a key and without tuning
\* moves the probe up by exactly 100 Hz while that stays below the higher
\* frequency and back to the lower one otherwise; and while the encoder has
\* not moved the probe is the lower frequency plus a multiple of 100 Hz,
\* below the higher one.
C20_EdgeSweep ==
  /\ [][((\E w \in 0 .. 1 : ScanStart(w))
           => /\ f' = <<VfoLower, VfoHigher>>
              /\ fx' = VfoLower)
        /\ ((SweepPass /\ tuningknob >= -2 /\ tuningknob <= 2)
           => /\ fx' = (IF fx + 100 < f[2] THEN fx + 100 ELSE f[1])
              /\ f' = f)]_vars
  /\ [](pc \in {"scan_probe", "scan_hold", "scan_dwell"} /\ nenc = 0
          => /\ f = <<VfoLower, VfoHigher>>
             /\ f[1] <= fx /\ fx < f[2]
             /\ (fx - f[1]) % 100 = 0)

\* A sweep with VFO A above VFO B has taken two steps of 100 Hz from the
\* lower frequency, untouched by the encoder, and its next step restarts
C20_Witness ==
  /\ pc = "scan_probe" /\ nenc = 0
  /\ f_vfo[cur_band][0] > f_vfo[cur_band][1]
  /\ fx = f_vfo[cur_band][1] + 200
  /\ ~(fx + 100 < f[2])

\* C21: in the edge sweep a hold on a level above the threshold is always
\* followed by the dwell wait, which starts at the tick count at which the
\* hold ended (the tick count at its begin plus the N ticks it lasted); the
\* start is kept as long as no key is read, and the wait is left, letting the
\* probe frequency advance, only once the tick count has reached start + 30.
\* The probe frequency does not move meanwhile (the encoder is at rest).
C21_ScanDwell ==
  [][/\ (pc = "scan_hold" /\ pc' # "scan_hold")
          => pc' = "scan_dwell" /\ runsecs10thresh' = runseconds10 /\ fx' = fx
     /\ (pc = "scan_dwell" /\ pc' = "scan_dwell" /\ key' = 0)
          => runsecs10thresh' = runsecs10thresh /\ fx' = fx
     /\ (pc = "scan_dwell" /\ pc' # "scan_dwell" /\ runsecs10thresh # 0)
          => runseconds10 >= runsecs10thresh + 30]_vars

\* A hold that lasted at least one tick was followed by a wait in which no
\* key was read; 30 ticks after the end of the hold the wait is about to end
C21_Witness ==
  /\ pc = "scan_dwell" /\ key = 0
  /\ runsecs10thresh > 0
  /\ runseconds10 = runsecs10thresh + 30

\* An edge sweep returns to main() on the abort key (key 3)
ScanAborted ==
  /\ pc' = "idle"
  /\ \/ \E s \in Svals, ptt1, ptt2 \in BOOLEAN : ScanProbe(3, s, ptt1, ptt2)
     \/ key = 3 /\ \E ptt1, ptt2 \in BOOLEAN : ScanDwellEnd(ptt1, ptt2)

\* A pass of the edge sweep ends on a key other than accept and abort
ScanOtherKey ==
  \/ \E k \in {1, 4}, s \in Svals, ptt1, ptt2 \in BOOLEAN :
       ScanProbe(k, s, ptt1, ptt2) /\ pc' # "scan_dwell"
  \/ key \in {1, 4} /\ \E ptt1, ptt2 \in BOOLEAN : ScanDwellEnd(ptt1, ptt2)

C23_ScanAbortable ==
  pc \in {"scan_probe", "scan_hold", "scan_dwell", "scan_spin"}
    => pc \in {"scan_probe", "scan_hold", "scan_dwell"}

\* The dual-VFO alternation returns to main() on the accept key (key 2) and
\* on the abort key (key 3)
VScanAccepted == key = 2 /\ \E ptt1, ptt2 \in BOOLEAN : VScanDwellEnd(ptt1, ptt2)
VScanAborted == key = 3 /\ \E ptt1, ptt2 \in BOOLEAN : VScanDwellEnd(ptt1, ptt2)

\* C24: accepting while VFO t1 is listened to, its frequency (pending tuning
\* applied) above 0 and below 2^28, makes t1 the current VFO with that
\* frequency, given to the DDS, and leaves the other VFO and the band alone;
\* an abort leaves the current VFO as it was
C24_VScanRoundTrip ==
  [][/\ (VScanAccepted /\ 0 < tuned(f_vfo[cur_band][t1])
           /\ tuned(f_vfo[cur_band][t1]) < 268435456)
          => /\ pc' = "idle"
             /\ cur_vfo' = t1
             /\ f_vfo'[cur_band][t1] = tuned(f_vfo[cur_band][t1])
             /\ f_vfo'[cur_band][1 - t1] = f_vfo[cur_band][1 - t1]
             /\ dds' = tuned(f_vfo[cur_band][t1]) + f_lo[sideband]
             /\ cur_band' = cur_band
     /\ VScanAborted
          => /\ pc' = "idle"
             /\ cur_vfo' = cur_vfo
             /\ cur_band' = cur_band
             /\ f_vfo'[cur_band][1 - t1] = f_vfo[cur_band][1 - t1]]_vars

\* The alternation is about to end on the accept key while it listens to
\* VFO B, with VFO A the current one
C24_Witness ==
  /\ pc = "vscan_dwell" /\ key = 2
  /\ ~(runsecs10thresh + DWELL > runseconds10)
  /\ t1 = 1 /\ cur_vfo = 0
  /\ f_vfo[cur_band][0] # f_vfo[cur_band][1]

\* C25 as claimed: a pass of the dual-VFO alternation that arrives on a VFO
\* with the level at or below the threshold and no key goes on without
\* entering the dwell wait
C25_VScanGatedDwell ==
  [][(\E s \in Svals : s <= thresh /\ VScanProbe(0, s)) => pc' # "vscan_dwell"]_vars

\* C25 amended: the alternation stays on a VFO, in the hold loop, exactly
\* while the level exceeds the threshold and no key is read; on every VFO,
\* after a hold or without one, it enters the dwell wait, which starts at the
\* current tick count and is left, with the start kept, only once the tick
\* count has reached start + 30; and it is only from the dwell wait that the
\* alternation moves to the other VFO (power being kept on)
C25_VScanDwellAlways ==
  [][pc' # "boot" =>
        /\ (pc = "vscan_probe" /\ pc' # "vscan_probe")
             => /\ pc' = (IF sval' > thresh /\ key' = 0 THEN "vscan_hold" ELSE "vscan_dwell")
                /\ pc' = "vscan_dwell" => runsecs10thresh' = runseconds10
        /\ pc' = "vscan_hold" => sval' > thresh /\ key' = 0 /\ t1' = t1
        /\ (pc = "vscan_hold" /\ pc' # "vscan_hold")
             => /\ pc' = "vscan_dwell" /\ runsecs10thresh' = runseconds10
                /\ ~(sval' > thresh /\ key' = 0)
        /\ (pc = "vscan_dwell" /\ pc' # "vscan_dwell" /\ runsecs10thresh # 0)
             => runseconds10 >= runsecs10thresh + 30
        /\ (pc \in {"vscan_probe", "vscan_hold", "vscan_dwell"} /\ t1' # t1)
             => pc = "vscan_dwell"]_vars

\* The alternation has arrived on VFO B with the level at or below the
\* threshold, no key and the encoder at rest, and has entered the dwell wait
C25_Witness ==
  /\ pc = "vscan_dwell" /\ t1 = 1
  /\ sval <= thresh /\ key = 0 /\ tuningknob = 0
  /\ runsecs10thresh = runseconds10 /\ runseconds10 > 0

\* C26: when an edge sweep measures the level while a tuning delta is
\* pending (accumulator beyond the deadband), the accumulator has been
\* checked and consumed by the time the sweep stands before its next
\* measurement, at the start of a pass of the for loop or of the hold loop
C26_TuneBeforeMeasure ==
  [][((tuningknob > 2 \/ tuningknob < -2)
        /\ pc' \in {"scan_probe", "scan_hold"}
        /\ \/ \E k \in KeysOrNone, s \in Svals, ptt1, ptt2 \in BOOLEAN : ScanProbe(k, s, ptt1, ptt2)
           \/ \E k \in KeysOrNone, s \in Svals : ScanHold(k, s))
       => tuningknob' = 0]_vars

\* Ticks since the start of the dwell wait, counted across the wraparound
dwell_elapsed ==
  IF runseconds10 >= runsecs10thresh THEN runseconds10 - runsecs10thresh
  ELSE (runseconds10 - MinLong) + (MaxLong - runsecs10thresh) + 1

\* C27: a dwell wait in which no key was read (its start is kept) is not left
\* before 30 ticks have passed since its start, and once 30 ticks have passed
\* the loop condition no longer holds it, whatever the tick count at which
\* it started
C27_DwellWrap ==
  /\ [][(pc \in {"scan_dwell", "vscan_dwell"} /\ runsecs10thresh # 0
           /\ pc' \notin {"scan_dwell", "vscan_dwell", "boot"})
          => dwell_elapsed >= 30]_vars
  /\ [](pc \in {"scan_dwell", "vscan_dwell"} /\ runsecs10thresh # 0
          /\ dwell_elapsed >= 30
          => FALSE \in dwell_cond)


(***************************************************************************)
(* C28                                                                     *)
(***************************************************************************)
\* A target the divider words can express: it is not zero and the integer
\* part a of 900 MHz / target leaves p1 within its 18 register bits
PllTargetOk(fq) ==
  /\ fq > 0
  /\ (f_xtal * PLLRATIO) \div fq >= 4
  /\ (f_xtal * PLLRATIO) \div fq <= 2051

\* The LO output, SYNTH_MS_0, has been given a target that is not zero and
\* in range
LoTargetValid == pc # "boot" => PllTargetOk(lo)

\* C28: once the startup has run, every frequency that si5351_set_freq has
\* been called with, for the LO output and for the two other outputs, is not
\* zero and within the range the divider supports
C28_PllTargetValid ==
  /\ LoTargetValid
  /\ pc # "boot" => \A i \in DOMAIN clk12 : PllTargetOk(clk12[i])

(***************************************************************************)
(* C29                                                                     *)
(***************************************************************************)
\* fq is a carrier inside a band plus one of the LO frequencies
DdsInDomain(fq) == \E b \in Bands, s \in 0 .. 1 : is_mem_freq_ok(fq - f_lo[s], b)

\* The frequency that the word w stands for, w * 125000000 / 2^32, lies
\* within one step of 125000000 / 2^32 of fq: with fq * 2^32 = E * clk + R,
\* this is E - 1 + R / clk <= w <= E + 1 + R / clk
DdsDecodesTo(w, fq) ==
  LET qr == long_div(0, fq, clk, 32)
  IN  /\ w <= qr[1] + 1
      /\ w >= qr[1] \/ (w = qr[1] - 1 /\ qr[2] = 0)

\* C29: the word that set_frequency_ad9850 computes for the frequency the DDS
\* has last been given, a carrier inside a band plus an LO frequency, is not
\* zero, is clocked out unchanged in its 32 bits, and decodes to that
\* frequency within one resolution step
C29_DdsWord ==
  DdsInDomain(dds)
    => /\ ad9850_fword1(dds) > 0
       /\ ad9850_word(ad9850_fword1(dds)) = ad9850_fword1(dds)
       /\ DdsDecodesTo(ad9850_fword1(dds), dds)

(***************************************************************************)
(* C30                                                                     *)
(***************************************************************************)
\* floor(fraction of 900 MHz / fq, times c) and whether that product is whole:
\* with r = 900 MHz mod fq, r * c = r * 2^20 - r
PllExactB(fq) ==
  LET r == (f_xtal * PLLRATIO) % fq
      qr == long_div(0, r, fq, 20)
  IN  <<IF qr[2] < r THEN qr[1] - 1 ELSE qr[1], qr[2] = r>>

\* The divider a + b / c lies within 1 / c of 900 MHz / fq
PllDividerWithin(a, b, fq) ==
  /\ a = (f_xtal * PLLRATIO) \div fq
  /\ b <= PllExactB(fq)[1] + 1
  /\ b >= PllExactB(fq)[1] \/ (b = PllExactB(fq)[1] - 1 /\ PllExactB(fq)[2])

\* a and b read back from the words p1 and p2
PllUnpackA(p1) == (p1 + 512) \div 128
PllUnpackB(p1, p2) == (((p1 + 512) % 128) * CFACTOR + p2) \div 128

\* The words p1 (18 bits) and p2 (20 bits) read back from the bytes of
\* registers synth + 2 .. synth + 7
PllRegsP1(regs) == regs[1] * 65536 + regs[2] * 256 + regs[3]
PllRegsP2(regs) == (regs[4] % 16) * 65536 + regs[5] * 256 + regs[6]

\* C30: for the target the LO output has last been given, si5351_set_freq
\* computes a = floor(900 MHz / target) and 0 <= b < c, the words p1 and p2,
\* by the formula that gives si5351_start its words for a = 36 and b = 0,
\* reach the registers whole, and the divider a + b / c read back from them
\* is within 1 / c of 900 MHz / target
C30_PllDivider ==
  pc # "boot" /\ PllTargetOk(lo)
    => LET a == si5351_a(lo)
           b == si5351_b(lo)
           regs == si5351_regs(si5351_p1(a, b), si5351_p2(a, b))
       IN  /\ a = (f_xtal * PLLRATIO) \div lo
           /\ b >= 0 /\ b < CFACTOR
           /\ si5351_p1(PLLRATIO, 0) = si5351_start_p1
           /\ si5351_p2(PLLRATIO, 0) = si5351_start_p2
           /\ PllRegsP1(regs) = si5351_p1(a, b)
           /\ PllRegsP2(regs) = si5351_p2(a, b)
           /\ PllUnpackA(PllRegsP1(regs)) = a
           /\ PllUnpackB(PllRegsP1(regs), PllRegsP2(regs)) = b
           /\ PllDividerWithin(PllUnpackA(PllRegsP1(regs)),
                               PllUnpackB(PllRegsP1(regs), PllRegsP2(regs)), lo)

(***************************************************************************)
(* C31                                                                     *)
(***************************************************************************)
\* The steps in which the operator's key commits something: the menu key and
\* the store key at the main loop, the next-band key, the band and the VFO
\* chosen from the menu, and the store key ending the TX preset or the
\* threshold adjustment
CommitStep ==
  \/ MenuKey
  \/ \E ptt1, ptt2 \in BOOLEAN : StoreKey(ptt1, ptt2)
  \/ \E ptt1, ptt2 \in BOOLEAN : NextBandKey(ptt1, ptt2)
  \/ \E ptt1, ptt2 \in BOOLEAN : BandSelect(ptt1, ptt2)
  \/ \E ptt1, ptt2 \in BOOLEAN : VfoSelect(ptt1, ptt2)
  \/ \E ptt1, ptt2 \in BOOLEAN : PresetEnd(2, ptt1, ptt2)
  \/ \E ptt1, ptt2 \in BOOLEAN : ThreshPoll(2, ptt1, ptt2)

\* C31: a step changes the EEPROM only if it is one of the operator's commit
\* steps; in particular no step taken with no key read at the main loop (a
\* tuning event), no encoder interrupt, no timer tick and no step inside a
\* scan changes it
C31_WritesExplicit ==
  [][/\ eeprom' # eeprom => CommitStep
     /\ pc \in {"scan_probe", "scan_hold", "scan_dwell", "scan_spin",
                "vscan_probe", "vscan_hold", "vscan_dwell"} => eeprom' = eeprom
     /\ nkeys' = nkeys /\ pc = "idle" => eeprom' = eeprom]_vars

\* The VFO has been tuned away from the committed frequency and the record
\* still holds what was committed
C31_Witness ==
  /\ pc = "idle"
  /\ committed # <<>>
  /\ f_vfo[cur_band][cur_vfo] # committed[4]
  /\ load_frequency(eeprom, cur_vfo, cur_band) = committed[4]

(***************************************************************************)
(* C32                                                                     *)
(***************************************************************************)
\* C32: while every VFO frequency is in 1 .. 2^28 - 1, the band is one of
\* 0 .. 4, the VFO is 0 or 1 and the sideband is 0 or 1, whatever the operator
\* has done; and the next-band key goes from each band to the next one, from
\* band 4 to band 0
C32_StateInRange ==
  /\ []((\A b \in Bands, v \in Vfos : f_vfo[b][v] >= 1 /\ f_vfo[b][v] <= VFOBIT - 1)
          => cur_band \in Bands /\ cur_vfo \in Vfos /\ sideband \in 0 .. 1)
  /\ [][(\E ptt1, ptt2 \in BOOLEAN : NextBandKey(ptt1, ptt2))
          => cur_band' = (cur_band + 1) % MAXBANDS]_vars

\* The next-band key has been pressed twice from band 3: band 4, then band 0
C32_Witness ==
  /\ pc = "idle"
  /\ nkeys = 2
  /\ startup_band(eeprom) = 0
  /\ cur_band = 0
  /\ thresh = 12

(***************************************************************************)
(* C33                                                                     *)
(***************************************************************************)
\* C33: a scan of either kind that ends on the abort key leaves the band, the
\* VFO, the sideband and the VFO frequencies as they were when it started:
\* the band, VFO, sideband and frequency that the menu key committed on the
\* way into the scan are still the current ones, and the edge sweep's two
\* frequencies are still the two bounds it started with
C33_AbortNoOp ==
  [][/\ ((ScanAborted \/ VScanAborted) /\ committed # <<>>)
          => /\ cur_band' = committed[1]
             /\ cur_vfo' = committed[2]
             /\ sideband' = committed[3]
             /\ f_vfo'[cur_band'][cur_vfo'] = committed[4]
     /\ ScanAborted
          => {f_vfo'[cur_band'][0], f_vfo'[cur_band'][1]} = {f[1], f[2]}]_vars

(***************************************************************************)
(* C34                                                                     *)
(***************************************************************************)
\* C34: a pass of the edge sweep that starts with a level at or below the
\* threshold, hence without a hold, does not enter the dwell wait: with no
\* key read it goes on to the next probe frequency, 100 Hz up or back at the
\* lower bound
C34_DwellAfterHoldOnly ==
  [][\A s \in Svals, ptt1, ptt2 \in BOOLEAN :
       (s <= thresh /\ ScanProbe(0, s, ptt1, ptt2))
         => /\ pc' = "scan_probe"
            /\ fx' = (IF tuned(fx) + SCANSTEP < f[2] THEN tuned(fx) + SCANSTEP ELSE f[1])]_vars

(***************************************************************************)
(* C35                                                                     *)
(***************************************************************************)
\* C35: the clear of tune_frequency takes away exactly the value its test
\* saw, so every direction the encoder interrupt has added is either in a
\* value a tuning event consumed or still in tuningknob; a step that arrives
\* between the test and the clear stays in the accumulator
C35_NoStepLost ==
  [][(\E ptt1, ptt2 \in Ptt : KnobClear(ptt1, ptt2))
       => tuningknob' = I16(tuningknob - rd_val)]_vars

(***************************************************************************)
(* C36                                                                     *)
(***************************************************************************)
\* C36: inside tx_preset_adjust the adjusted value and the value given to the
\* DAC are within 0 .. 4095, and leaving it with the store key puts a value
\* within 0 .. 4095 into tx_preset[cur_band] and into the band's EEPROM word
C36_PresetInRange ==
  /\ [](pc = "tx_adj" => v1 \in 0 .. 4095 /\ dac \in 0 .. 4095)
  /\ [][(\E ptt1, ptt2 \in BOOLEAN : PresetEnd(2, ptt1, ptt2))
          => /\ tx_preset'[cur_band] \in 0 .. 4095
             /\ load_tx_preset(eeprom', cur_band) \in 0 .. 4095]_vars

(***************************************************************************)
(* C37                                                                     *)
(***************************************************************************)
\* C37: from startup on the scan threshold is within 0 .. 12, a pass of
\* set_scan_threshold moves it by at most one, and the threshold byte of the
\* EEPROM changes only in the step that leaves set_scan_threshold with key 2,
\* to the threshold then in use
C37_ThreshInRange ==
  /\ [](pc # "boot" => thresh \in 0 .. 12)
  /\ [][/\ pc = "thresh" => thresh' - thresh \in {-1, 0, 1}
        /\ eeprom'[OFF_THRESH] # eeprom[OFF_THRESH]
             => /\ \E ptt1, ptt2 \in BOOLEAN : ThreshPoll(2, ptt1, ptt2)
                /\ eeprom'[OFF_THRESH] = thresh']_vars

\* The threshold has been taken from 12 to 11 with the knob and stored
C37_Witness ==
  /\ pc = "idle" /\ nkeys = 1
  /\ thresh = 11 /\ eeprom[OFF_THRESH] = 11
  /\ load_tx_preset(eeprom, 0) = 100

(***************************************************************************)
(* C38                                                                     *)
(***************************************************************************)
\* C38: when the first LO calibration after power on is left with a key
\* other than the store key, both LO frequencies are the ones startup set
\* and the LO is programmed with the one of the current sideband
C38_LoAbortNoOp ==
  [][(\E k \in {1, 3, 4}, ptt1, ptt2 \in BOOLEAN : LoSetPoll(k, ptt1, ptt2))
       => /\ f_lo'[0] = f_lo_init[0] /\ f_lo'[1] = f_lo_init[1]
          /\ lo' = f_lo_init[sideband']]_vars

(***************************************************************************)
(* C39                                                                     *)
(***************************************************************************)
\* The four bytes of the frequency slot of VFO v on band b
SlotAddrs(v, b) == (64 + 8 * b + 4 * v) .. (64 + 8 * b + 4 * v + 3)

\* The fields of the persistent schema, each as its set of addresses
SchemaFields ==
  {SlotAddrs(v, b) : v \in Vfos, b \in Bands}
    \cup {{0}, {5}, {6}, {138}}
    \cup {{7 + b} : b \in Bands}
    \cup {{128 + 2 * b, 129 + 2 * b} : b \in Bands}

\* Addresses whose byte a step changes
Changed == {a \in EeAddrs : eeprom'[a] # eeprom[a]}

\* C39: the 24 fields of the schema are pairwise disjoint and lie in bytes
\* 0, 5..11, 64..103 and 128..138; store_frequency(v, b, f) changes bytes of
\* the slot at 64 + 8b + 4v only and leaves there the four bytes of f, high
\* byte first; store_vfo, store_tx_preset and the threshold write change bytes
\* of their own field only, store_current_operation those of its four fields
C39_FieldsDisjoint ==
  /\ [](/\ Cardinality(SchemaFields) = 24
        /\ \A X, Y \in SchemaFields : X # Y => X \cap Y = {}
        /\ UNION SchemaFields = {0} \cup (5 .. 11) \cup (64 .. 103) \cup (128 .. 138))
  /\ [][/\ \A v \in Vfos, b \in Bands, fq \in SchemaFreqs :
             StoreFrequency(v, b, fq)
               => /\ Changed \subseteq SlotAddrs(v, b)
                  /\ \A i \in 0 .. 3 : eeprom'[64 + 8 * b + 4 * v + i] = slot_bytes(fq)[i + 1]
        /\ \A b \in Bands, v \in Vfos : StoreVfo(b, v) => Changed \subseteq {7 + b}
        /\ \A value \in {0, 4095}, b \in Bands :
             StoreTxPreset(value, b) => Changed \subseteq {128 + 2 * b, 129 + 2 * b}
        /\ \A t \in {0, 12} : StoreThresh(t) => Changed \subseteq {138}
        /\ \A b \in Bands, v \in Vfos :
             StoreCurrentOperation(b, v, 1, 16909060)
               => Changed \subseteq ({0, 6, 7 + b} \cup SlotAddrs(v, b))]_vars

\* The slot of VFO B on band 2 holds 16909060 as bytes 1, 2, 3, 4 between
\* two slots that were left as they were
C39_Witness ==
  /\ nkeys = 1
  /\ <<eeprom[84], eeprom[85], eeprom[86], eeprom[87]>> = <<1, 2, 3, 4>>
  /\ load_frequency(eeprom, 0, 2) = band_f0[2] + 5000
  /\ load_frequency(eeprom, 0, 3) = band_f0[3] + 5000

(***************************************************************************)
(* C40                                                                     *)
(***************************************************************************)
\* Bit k of the 32-bit number w
WordBit(w, k) == ((w \div (2 ^ (k \div 2))) \div (2 ^ (k - k \div 2))) % 2

\* C40: the writes to PORTB of the last DDS programming are FQ_UD low, then
\* 40 times a write of the data line followed by one clock pulse (high, then
\* low), then FQ_UD high; the data levels are bits 0 .. 31 of the tuning word,
\* lowest first, and then eight zeros
C40_DdsFrame ==
  pc # "boot"
    => \A fr \in {set_frequency_ad9850(dds)}, w \in {ad9850_word(ad9850_fword1(dds))} :
         /\ Len(fr) = 122
         /\ fr[1] = <<DDS_FQ_UD, 0>> /\ fr[122] = <<DDS_FQ_UD, 1>>
         /\ \A n \in 1 .. 40 :
              /\ fr[3 * n - 1] = <<DDS_SDATA, IF n <= 32 THEN WordBit(w, n - 1) ELSE 0>>
              /\ fr[3 * n] = <<DDS_W_CLK, 1>>
              /\ fr[3 * n + 1] = <<DDS_W_CLK, 0>>

\* The main loop has tuned the VFO in use and programmed the DDS with a
\* word that has ones in both halves
C40_Witness ==
  /\ pc = "idle"
  /\ f_vfo[cur_band][cur_vfo] # f_vfo_init[cur_band][cur_vfo]
  /\ dds = f_vfo[cur_band][cur_vfo] + f_lo[sideband]
  /\ ad9850_loword(ad9850_fword1(dds)) # 0
  /\ ad9850_hiword(ad9850_fword1(dds)) # 0

====
